---- MODULE Spec2Model ----
(***************************************************************************)
(* Continuum-interaction plasma properties of tardis:                      *)
(*   - the MultiIndex transforms get_ion_multi_index and                   *)
(*     get_ground_state_multi_index (continuum_processes.py) and the copy  *)
(*     BaseContinuumData._get_ion_multi_index (base_continuum_data.py);    *)
(*   - the block integrator integrate_array_by_blocks;                     *)
(*   - PhotoIonizationData.calculate (atomic.py);                          *)
(*   - the rate-coefficient nodes SpontRecombRateCoeff, PhotoIonRateCoeff, *)
(*     StimRecombRateCoeff, CorrPhotoIonRateCoeff (continuum_processes.py) *)
(*     and the nodes of the same names in continuum.py.                    *)
(*                                                                         *)
(* Tables.  A pandas MultiIndex is a sequence of key tuples, in row order. *)
(* A DataFrame is a record [index, values] with values[i] the row of       *)
(* index[i], a sequence over the shells.  Positions are 1-based here and   *)
(* 0-based in the source; block references keep the source's 0-based row   *)
(* offsets.                                                                *)
(***************************************************************************)
EXTENDS Integers, Sequences, FiniteSets, TLC

VARIABLES
    \* ---- index transforms
    multi_index_full,        \* the level MultiIndex handed to the transforms
    ion_call,                \* last call of get_ion_multi_index
    ion_call_bcd,            \* last call of BaseContinuumData._get_ion_multi_index
    ground_call,             \* last call of get_ground_state_multi_index
    reapply_call,            \* last call of a transform on its own output
    \* ---- block integrator
    f,                       \* 2-d array: f[row][column]
    x,                       \* 1-d array of sample locations
    block_references,        \* 1-d array of 0-based row offsets
    integrated,              \* last result of integrate_array_by_blocks
    \* ---- PhotoIonizationData
    atomic_data,             \* the loaded atomic data (read by the nodes)
    continuum_interaction_species,   \* set of (atomic_number, ion_number)
    pid,                     \* last call of PhotoIonizationData.calculate
    zero_integrated,         \* the zero function integrated over pid's blocks
    \* ---- rate-coefficient nodes
    rate_in,                 \* the inputs the graph hands to the node
    rate_call,               \* last calculate() of a rate-coefficient node
    \* ---- atomic property nodes
    atom_in,                 \* the node under evaluation and its inputs
    atom_call,               \* last evaluation of an atomic property node
    \* ---- objects outside the rate calculations
    plasma,                  \* the property graph: registry, values, call counts
    cont,                    \* BaseContinuumData under construction
    leg                      \* an AtomicDataLeg with its cached properties

idxVars == <<multi_index_full, ion_call, ion_call_bcd, ground_call, reapply_call>>
integVars == <<f, x, block_references, integrated>>
pidVars == <<atomic_data, continuum_interaction_species, pid, zero_integrated>>

rateVars == <<rate_in, rate_call>>

atomVars == <<atom_in, atom_call>>

objVars == <<plasma, cont, leg>>

vars == <<idxVars, integVars, pidVars, rateVars, atomVars, objVars>>

\* what the actions of one group leave alone
notIdxVars == <<integVars, pidVars, rateVars, atomVars, objVars>>
notIntegVars == <<idxVars, pidVars, rateVars, atomVars, objVars>>
notPidVars == <<idxVars, integVars, rateVars, atomVars, objVars>>
notRateVars == <<idxVars, integVars, pidVars, atomVars, objVars>>
notAtomVars == <<idxVars, integVars, pidVars, rateVars, objVars>>
notObjVars == <<idxVars, integVars, pidVars, rateVars, atomVars>>

(***************************************************************************)
(* Bounds and value domains                                                *)
(***************************************************************************)
MaxIdx == 2                          \* longest level MultiIndex of SpecIndex
MaxSamples == 3                      \* most rows of f and x in SpecIntegrate
MaxBlocks == 2                       \* most blocks in SpecIntegrate

MaxRawRows == 3                      \* most rows of the raw photoionization table
MaxRateRows == 2                     \* most rows of that table in SpecRates
MaxZ == 3                            \* highest atomic number in SpecAtomic
MaxCalls == 2                        \* most invocations of one node's compute function
MaxReads == 3                        \* most property reads of one AtomicDataLeg
MaxModules == 3                      \* longest assembled list of node classes
MaxZetaZ == 2                        \* highest atomic number of the zeta table

Shells == {0, 1}                     \* column labels: np.arange(no_of_shells)
NoOfShells == Cardinality(Shells)
\* Values of f are even, so that np.trapz's division by 2.0 is exact in the
\* integers as it is in the floats.
FVals == {0, 2}
XVals == {1, 2}

\* the levels that have photoionization cross sections, the frequencies and
\* the cross sections of the raw table's rows
PhotoKeys == {<<1, 0, 0>>, <<1, 0, 1>>, <<2, 1, 0>>}
NuVals == {1, 3}
XsectVals == {2}
\* electron / radiation temperatures and the values of phi_ik
TVals == {1, 2}
PhiVals == {1, 2}
\* the ions whose levels the atomic data may lack
OptionalIons == {<<1, 1>>, <<2, 2>>}

AtomicNumbers == {1, 2}
LevelNumbers == {0, 1}
\* every level key (atomic_number, ion_number, level_number), the bare
\* nucleus (ion_number = atomic_number) included
LevelKeys ==
    {k \in AtomicNumbers \X (0..2) \X LevelNumbers : k[2] <= k[1]}

None == [called |-> FALSE]

RECURSIVE SeqsUpTo(_, _)
SeqsUpTo(S, n) ==
    IF n = 0 THEN {<<>>}
    ELSE LET shorter == SeqsUpTo(S, n - 1)
         IN shorter \cup {Append(s, e) : s \in {t \in shorter : Len(t) = n - 1}, e \in S}

(***************************************************************************)
(* pandas.MultiIndex helpers                                               *)
(***************************************************************************)
\* MultiIndex.get_level_values(k): the k-th key component of every row
\* (k is 0-based as in the source)
get_level_values(mi, k) == [i \in 1..Len(mi) |-> mi[i][k + 1]]

\* pd.MultiIndex.from_arrays(arrays): row i is the tuple of the arrays' i-th
\* entries
from_arrays(arrays) ==
    [i \in 1..Len(arrays[1]) |-> [k \in 1..Len(arrays) |-> arrays[k][i]]]

\* Index + 1 (elementwise, a new Index)
IndexAdd(index, n) == [i \in 1..Len(index) |-> index[i] + n]

\* np.zeros_like(index)
zeros_like(index) == [i \in 1..Len(index) |-> 0]

(***************************************************************************)
(* continuum_processes.py: get_ion_multi_index                             *)
(***************************************************************************)
get_ion_multi_index_always_higher(mi, next_higher) ==
    from_arrays(<<get_level_values(mi, 0), IndexAdd(get_level_values(mi, 1), 1)>>)

\* the mutant: next_higher is ignored
get_ion_multi_index_never_higher(mi, next_higher) ==
    from_arrays(<<get_level_values(mi, 0), get_level_values(mi, 1)>>)

get_ion_multi_index(mi, next_higher) ==
    LET atomic_number == get_level_values(mi, 0)
        ion_number0 == get_level_values(mi, 1)
        ion_number == IF next_higher = TRUE
                        THEN IndexAdd(ion_number0, 1)
                        ELSE ion_number0
    IN from_arrays(<<atomic_number, ion_number>>)

(***************************************************************************)
(* base_continuum_data.py: BaseContinuumData._get_ion_multi_index          *)
(***************************************************************************)
BaseContinuumData_get_ion_multi_index(mi, next_higher) ==
    LET atomic_number == get_level_values(mi, 0)
        ion_number0 == get_level_values(mi, 1)
        ion_number == IF next_higher = TRUE
                        THEN IndexAdd(ion_number0, 1)
                        ELSE ion_number0
    IN from_arrays(<<atomic_number, ion_number>>)

(***************************************************************************)
(* continuum_processes.py: get_ground_state_multi_index                    *)
(***************************************************************************)
get_ground_state_multi_index_keep_level(mi) ==
    from_arrays(<<get_level_values(mi, 0),
                  IndexAdd(get_level_values(mi, 1), 1),
                  get_level_values(mi, 2)>>)

get_ground_state_multi_index(mi) ==
    LET atomic_number == get_level_values(mi, 0)
        ion_number == IndexAdd(get_level_values(mi, 1), 1)
        level_number == zeros_like(ion_number)
    IN from_arrays(<<atomic_number, ion_number, level_number>>)

(***************************************************************************)
(* continuum_processes.py: integrate_array_by_blocks                       *)
(***************************************************************************)
Min(a, b) == IF a <= b THEN a ELSE b
Max(a, b) == IF a >= b THEN a ELSE b

\* a[start:stop] for 0 <= start, stop: Python clamps both to len(a) and an
\* empty range gives the empty array
Slice(a, start, stop) ==
    LET lo == Min(start, Len(a))
        hi == Min(stop, Len(a))
    IN IF hi <= lo THEN <<>> ELSE [i \in 1..(hi - lo) |-> a[lo + i]]

\* f[:, i]: column i (0-based) of a 2-d array
Column(a, i) == [r \in 1..Len(a) |-> a[r][i + 1]]

RECURSIVE SumSeq(_)
SumSeq(s) == IF s = <<>> THEN 0 ELSE s[1] + SumSeq(Tail(s))

\* the mutant: a rectangle rule that gives the last sample a unit width
trapz_rectangle(y, xs) ==
    SumSeq([k \in 1..Len(y) |->
               y[k] * (IF k < Len(xs) THEN xs[k + 1] - xs[k] ELSE 1)])

\* np.trapz(y, x): d = np.diff(x); (d * (y[1:] + y[:-1]) / 2.0).sum()
trapz(y, xs) ==
    LET n == Len(y)
        d == [k \in 1..(Len(xs) - 1) |-> xs[k + 1] - xs[k]]
    IN IF n < 2 THEN 0
       ELSE SumSeq([k \in 1..(n - 1) |-> (d[k] * (y[k + 1] + y[k])) \div 2])

\* the mutant: the slice of a block runs one row into the next block
integrate_array_by_blocks_leak(ff, xx, refs) ==
    [j \in 1..(Len(refs) - 1) |->
        [i \in 1..NoOfShells |->
            trapz(Slice(Column(ff, i - 1), refs[j], refs[j + 1] + 1),
                  Slice(xx, refs[j], refs[j + 1] + 1))]]

\* integrated[j, i] = np.trapz(f[start:stop, i], x[start:stop]); f.shape[1]
\* is the number of shells
integrate_array_by_blocks(ff, xx, refs) ==
    [j \in 1..(Len(refs) - 1) |->
        [i \in 1..NoOfShells |->
            LET start == refs[j]
                stop == refs[j + 1]
            IN trapz(Slice(Column(ff, i - 1), start, stop),
                     Slice(xx, start, stop))]]

(***************************************************************************)
(* pandas lookups and groupings used by the property nodes                 *)
(***************************************************************************)
\* lexicographic order of key tuples of equal length (the order of a sorted
\* MultiIndex and of groupby's group keys)
RECURSIVE KeyLess(_, _)
KeyLess(a, b) ==
    IF a = <<>> \/ b = <<>> THEN FALSE
    ELSE \/ a[1] < b[1]
         \/ a[1] = b[1] /\ KeyLess(Tail(a), Tail(b))

RECURSIVE SortKeys(_)
SortKeys(S) ==
    IF S = {} THEN <<>>
    ELSE LET m == CHOOSE k \in S : \A o \in S \ {k} : KeyLess(k, o)
         IN <<m>> \o SortKeys(S \ {m})

Range(s) == {s[i] : i \in 1..Len(s)}

\* Index.unique(): the distinct values in order of first appearance
RECURSIVE Unique(_)
Unique(s) ==
    IF s = <<>> THEN <<>>
    ELSE LET front == Unique(SubSeq(s, 1, Len(s) - 1))
             last == s[Len(s)]
         IN IF last \in Range(front) THEN front ELSE Append(front, last)

RECURSIVE CumSum(_)
CumSum(s) ==
    IF s = <<>> THEN <<>>
    ELSE LET front == CumSum(SubSeq(s, 1, Len(s) - 1))
         IN Append(front, (IF front = <<>> THEN 0 ELSE front[Len(front)])
                              + s[Len(s)])

\* The pandas releases differ on table.loc[keys] when a key is not in the
\* table (LocModes): "raise" raises KeyError; "reindex" returns NaN for the
\* missing key and raises KeyError only when none of the keys is found.
LocModes == {"raise", "reindex"}

\* the mutant: every key is given the value of the first key
Loc_first_key(table, keys, mode) ==
    LET missing == {i \in 1..Len(keys) : keys[i] \notin DOMAIN table}
    IN IF missing = {}
         THEN [error |-> "None", values |-> [i \in 1..Len(keys) |-> table[keys[1]]]]
       ELSE [error |-> "KeyError", values |-> <<>>]

Loc(table, keys, mode) ==
    LET missing == {i \in 1..Len(keys) : keys[i] \notin DOMAIN table}
    IN IF missing = {}
         THEN [error |-> "None", values |-> [i \in 1..Len(keys) |-> table[keys[i]]]]
       ELSE IF mode = "raise" \/ Cardinality(missing) = Len(keys)
         THEN [error |-> "KeyError", values |-> <<>>]
       ELSE [error |-> "None",
             values |-> [i \in 1..Len(keys) |->
                            IF i \in missing THEN "NaN" ELSE table[keys[i]]]]

(***************************************************************************)
(* atomic.py: PhotoIonizationData.calculate                                *)
(***************************************************************************)
NoResult == <<>>

\* photoionization_data.set_index(['atomic_number', 'ion_number',
\* 'level_number']): the rows keyed by level, in the table's order
SetLevelIndex(rows) ==
    [i \in 1..Len(rows) |->
        [key |-> <<rows[i].atomic_number, rows[i].ion_number, rows[i].level_number>>,
         nu |-> rows[i].nu, x_sect |-> rows[i].x_sect]]

\* photoionization_data[mask_selected_species]
FilterSpecies(rows, species) ==
    LET Selected(r) == <<r.key[1], r.key[2]>> \in species
    IN SelectSeq(rows, Selected)

\* the mutant: the groups in order of first appearance (groupby(sort=False))
GroupKeys_unsorted(rows) == Unique([i \in 1..Len(rows) |-> rows[i].key])

\* groupby(level=[0, 1, 2]): the group keys, sorted ascending
GroupKeys(rows) == SortKeys({rows[i].key : i \in 1..Len(rows)})

\* groupby(level=[0, 1, 2]).count().values
GroupCounts(rows) ==
    LET keys == GroupKeys(rows)
    IN [g \in 1..Len(keys) |->
           Cardinality({i \in 1..Len(rows) : rows[i].key = keys[g]})]

\* groupby(level=[0, 1, 2]).first().nu: per group the nu of its first row
GroupFirstNu(rows) ==
    LET keys == GroupKeys(rows)
    IN [index |-> keys,
        values |-> [g \in 1..Len(keys) |->
                       LET first == CHOOSE i \in 1..Len(rows) :
                                       /\ rows[i].key = keys[g]
                                       /\ \A j \in 1..(i - 1) : rows[j].key # keys[g]
                       IN rows[first].nu]]

\* the mutant: the block references are the counts, not their running sum
BlockReferencesOf_counts(rows) == <<0>> \o GroupCounts(rows)

\* np.hstack([[0], phot_nus.groupby(level=[0, 1, 2]).count().values.cumsum()])
BlockReferencesOf(rows) == <<0>> \o CumSum(GroupCounts(rows))

PhotoIonizationData_calculate(ad, species, mode) ==
    LET photoionization_data ==
            FilterSpecies(SetLevelIndex(ad.photoionization_data), species)
        refs == BlockReferencesOf(photoionization_data)
        photo_ion_index ==
            Unique([i \in 1..Len(photoionization_data) |-> photoionization_data[i].key])
        nu_i == GroupFirstNu(photoionization_data)
        energy == Loc(ad.levels, photo_ion_index, mode)
        source_idx == Loc(ad.macro_atom_references, photo_ion_index, mode)
        destination_idx == Loc(ad.macro_atom_references,
                               get_ground_state_multi_index(photo_ion_index), mode)
    IN IF energy.error # "None"
         THEN [called |-> TRUE, error |-> energy.error, ret |-> NoResult]
       ELSE IF source_idx.error # "None"
         THEN [called |-> TRUE, error |-> source_idx.error, ret |-> NoResult]
       ELSE IF destination_idx.error # "None"
         THEN [called |-> TRUE, error |-> destination_idx.error, ret |-> NoResult]
       ELSE [called |-> TRUE, error |-> "None",
             ret |-> [photo_ion_cross_sections |-> photoionization_data,
                      photo_ion_block_references |-> refs,
                      photo_ion_index |-> photo_ion_index,
                      nu_i |-> nu_i,
                      energy_i |-> [index |-> photo_ion_index,
                                    values |-> energy.values],
                      photo_ion_idx |->
                          [index |-> photo_ion_index,
                           source_level_idx |-> source_idx.values,
                           destination_level_idx |-> destination_idx.values]]]

(***************************************************************************)
(* continuum_processes.py: SpontRecombRateCoeff.calculate                  *)
(*                                                                         *)
(* Numbers.  The floats of the source are integers here, in units in which *)
(* 8 pi / c^2 = 1 and h / k_B = 1.  np.exp(-nu / t) has no integer value:  *)
(* BoltzmannFactor stands for it with a positive even integer that falls   *)
(* as nu / t grows, which is all the nodes use of it.                      *)
(***************************************************************************)
BoltzmannFactor(nu, t) == 2 * (7 - (2 * nu) \div t)

\* np.arange(n)
Arange(n) == [c \in 1..n |-> c - 1]

\* a DataFrame: row keys, column labels, and one row of values per key
Table(index, columns, values) ==
    [is_none |-> FALSE, index |-> index, columns |-> columns, values |-> values]

\* pd.DataFrame(values, index=index): the columns are 0, 1, ...
DataFrame(values, index) == Table(index, Arange(NoOfShells), values)

PyNone == [is_none |-> TRUE]

\* df * other.loc[df.index], other a table keyed by level
TimesLoc(df, other) ==
    Table(df.index, df.columns,
          [i \in 1..Len(df.index) |->
              [c \in 1..NoOfShells |-> df.values[i][c] * other[df.index[i]][c]]])

SpontRecombIntegrand(photo_ion_cross_sections, t_electrons) ==
    LET x_sect == [r \in 1..Len(photo_ion_cross_sections) |->
                      photo_ion_cross_sections[r].x_sect]
        nu == [r \in 1..Len(photo_ion_cross_sections) |->
                  photo_ion_cross_sections[r].nu]
        alpha_sp == [r \in 1..Len(nu) |-> x_sect[r] * nu[r] * nu[r]]
        boltzmann_factor ==
            [r \in 1..Len(nu) |->
                [c \in 1..NoOfShells |-> BoltzmannFactor(nu[r], t_electrons[c])]]
    IN [r \in 1..Len(nu) |->
           [c \in 1..NoOfShells |-> alpha_sp[r] * boltzmann_factor[r][c]]]

SpontRecombRateCoeff_calculate(photo_ion_cross_sections, t_electrons, photo_ion_block_references, photo_ion_index, phi_ik) ==
    LET nu == [r \in 1..Len(photo_ion_cross_sections) |->
                  photo_ion_cross_sections[r].nu]
        alpha_sp == integrate_array_by_blocks(
                        SpontRecombIntegrand(photo_ion_cross_sections, t_electrons),
                        nu, photo_ion_block_references)
    IN [called |-> TRUE, node |-> "SpontRecombRateCoeff", error |-> "None",
        integrated |-> alpha_sp,
        ret |-> TimesLoc(DataFrame(alpha_sp, photo_ion_index), phi_ik)]

(***************************************************************************)
(* continuum_processes.py: PhotoIonRateCoeff, StimRecombRateCoeff and      *)
(* PhotoIonEstimatorsNormFactor                                            *)
(*                                                                         *)
(* JBluesDiluteBlackBody.calculate is w * B_nu(t_rad) per sample and       *)
(* shell; the Planck function stands as the integer 6 nu^2 t, positive     *)
(* and a multiple of every nu, so that x_sect / nu divides it exactly.     *)
(* Units in which 4 pi / h = 1 and h = 1.                                  *)
(***************************************************************************)
IntensityBlackBody(nu, t) == 6 * nu * nu * t

JBluesDiluteBlackBody_calculate(photo_ion_cross_sections, nu, t_rad, w) ==
    [r \in 1..Len(nu) |->
        [c \in 1..NoOfShells |-> w[c] * IntensityBlackBody(nu[r], t_rad[c])]]

PhotoIonRateCoeff_calculate_from_dilute_bb(photo_ion_cross_sections, photo_ion_block_references, photo_ion_index, t_rad, w) ==
    LET nu == [r \in 1..Len(photo_ion_cross_sections) |->
                  photo_ion_cross_sections[r].nu]
        x_sect == [r \in 1..Len(photo_ion_cross_sections) |->
                      photo_ion_cross_sections[r].x_sect]
        j_nus == JBluesDiluteBlackBody_calculate(photo_ion_cross_sections, nu, t_rad, w)
        gamma == [r \in 1..Len(nu) |->
                     [c \in 1..NoOfShells |-> (j_nus[r][c] * x_sect[r]) \div nu[r]]]
    IN DataFrame(integrate_array_by_blocks(gamma, nu, photo_ion_block_references),
                 photo_ion_index)

\* (time_simulation * volume * h) ** -1, one factor per shell, kept as the
\* number it is the reciprocal of
PhotoIonEstimatorsNormFactor_calculate(time_simulation, volume) ==
    [c \in 1..NoOfShells |-> [reciprocal_of |-> time_simulation * volume[c]]]

\* estimator * photo_ion_norm_factor: the estimator's own rows and columns,
\* each value divided by what the factor of its shell is the reciprocal of
\* (the estimator values are multiples of it)
TimesNormFactor(estimator, photo_ion_norm_factor) ==
    Table(estimator.index, estimator.columns,
          [i \in 1..Len(estimator.index) |->
              [c \in 1..NoOfShells |->
                  estimator.values[i][c] \div photo_ion_norm_factor[c].reciprocal_of]])

PhotoIonRateCoeff_calculate(photo_ion_cross_sections, gamma_estimator, photo_ion_norm_factor, photo_ion_block_references, photo_ion_index, t_rad, w) ==
    IF gamma_estimator.is_none
    THEN PhotoIonRateCoeff_calculate_from_dilute_bb(
             photo_ion_cross_sections, photo_ion_block_references,
             photo_ion_index, t_rad, w)
    ELSE TimesNormFactor(gamma_estimator, photo_ion_norm_factor)

StimRecombRateCoeff_calculate_from_dilute_bb(photo_ion_cross_sections, photo_ion_block_references, photo_ion_index, t_rad, w, t_electrons) ==
    LET nu == [r \in 1..Len(photo_ion_cross_sections) |->
                  photo_ion_cross_sections[r].nu]
        x_sect == [r \in 1..Len(photo_ion_cross_sections) |->
                      photo_ion_cross_sections[r].x_sect]
        boltzmann_factor ==
            [r \in 1..Len(nu) |->
                [c \in 1..NoOfShells |-> BoltzmannFactor(nu[r], t_electrons[c])]]
        j_nus == JBluesDiluteBlackBody_calculate(photo_ion_cross_sections, nu, t_rad, w)
        alpha_stim ==
            [r \in 1..Len(nu) |->
                [c \in 1..NoOfShells |->
                    (j_nus[r][c] * boltzmann_factor[r][c] * x_sect[r]) \div nu[r]]]
    IN DataFrame(integrate_array_by_blocks(alpha_stim, nu, photo_ion_block_references),
                 photo_ion_index)

StimRecombRateCoeff_calculate(photo_ion_cross_sections, alpha_stim_estimator, photo_ion_norm_factor, photo_ion_block_references, photo_ion_index, t_rad, w, phi_ik, t_electrons) ==
    IF alpha_stim_estimator.is_none
    THEN TimesLoc(StimRecombRateCoeff_calculate_from_dilute_bb(
                      photo_ion_cross_sections, photo_ion_block_references,
                      photo_ion_index, t_rad, w, t_electrons),
                  phi_ik)
    ELSE TimesNormFactor(alpha_stim_estimator, photo_ion_norm_factor)

(***************************************************************************)
(* continuum.py: the PhotoIonRateCoeff and StimRecombRateCoeff that        *)
(* property_collections.py imports last                                    *)
(***************************************************************************)
\* pd.MultiIndex.from_tuples
get_estimator_index(photo_ion_index_sorted) ==
    [i \in 1..Len(photo_ion_index_sorted) |->
        <<photo_ion_index_sorted[i][1], photo_ion_index_sorted[i][2],
          photo_ion_index_sorted[i][3]>>]

calculate_rate_coefficient_from_estimator(estimator, photo_ion_index_sorted) ==
    Table(get_estimator_index(photo_ion_index_sorted), Arange(NoOfShells),
          estimator.values)

continuum_PhotoIonRateCoeff_calculate(photo_ion_estimator, photo_ion_index_sorted) ==
    IF ~photo_ion_estimator.is_none
    THEN calculate_rate_coefficient_from_estimator(photo_ion_estimator,
                                                   photo_ion_index_sorted)
    ELSE PyNone

continuum_StimRecombRateCoeff_calculate(stim_recomb_estimator, photo_ion_index_sorted, phi_lucy) ==
    IF ~stim_recomb_estimator.is_none
    THEN TimesLoc(calculate_rate_coefficient_from_estimator(
                      stim_recomb_estimator, photo_ion_index_sorted),
                  phi_lucy)
    ELSE PyNone

(***************************************************************************)
(* continuum_processes.py: CorrPhotoIonRateCoeff.calculate                 *)
(*                                                                         *)
(* The division is numpy's: a float divided by 0.0 is nan (0 / 0) or an    *)
(* infinity, with a warning and no exception.  A float is a record: a      *)
(* finite integer, nan, or an infinity with its sign in v.                 *)
(***************************************************************************)
Fin(n) == [kind |-> "fin", v |-> n]
NaN == [kind |-> "nan", v |-> 0]
Inf(sign) == [kind |-> "inf", v |-> sign]

\* a / b of two finite numbers (b, when not 0, divides a)
FDiv(a, b) ==
    IF b # 0 THEN Fin(a \div b)
    ELSE IF a = 0 THEN NaN
    ELSE IF a > 0 THEN Inf(1) ELSE Inf(-1)

\* a - y, a finite
FSub(a, y) ==
    IF y.kind = "fin" THEN Fin(a - y.v)
    ELSE IF y.kind = "nan" THEN NaN
    ELSE Inf(-y.v)

\* y < 0: every comparison with nan is False
FLt0(y) == y.kind # "nan" /\ y.v < 0

CorrPhotoIonRateCoeff_calculate(gamma, alpha_stim, electron_densities, ion_number_density, level_number_density) ==
    LET n_k_index == get_ion_multi_index(alpha_stim.index, TRUE)
        n_k == [i \in 1..Len(n_k_index) |-> ion_number_density[n_k_index[i]]]
        n_i == [i \in 1..Len(alpha_stim.index) |->
                   level_number_density[alpha_stim.index[i]]]
        gamma_corr ==
            [i \in 1..Len(gamma.index) |->
                [c \in 1..NoOfShells |->
                    FSub(gamma.values[i][c],
                         FDiv(alpha_stim.values[i][c] * n_k[i][c]
                                  * electron_densities[c],
                              n_i[i][c]))]]
        num_neg_elements ==
            Cardinality({ic \in (1..Len(gamma.index)) \X (1..NoOfShells) :
                            FLt0(gamma_corr[ic[1]][ic[2]])})
    IN IF num_neg_elements # 0
       THEN [called |-> TRUE, node |-> "CorrPhotoIonRateCoeff",
             error |-> "PlasmaException", ret |-> PyNone]
       ELSE [called |-> TRUE, node |-> "CorrPhotoIonRateCoeff",
             error |-> "None",
             ret |-> Table(gamma.index, gamma.columns, gamma_corr)]

(***************************************************************************)
(* atomic.py: IonizationData._filter_atomic_property                       *)
(*                                                                         *)
(* ionization_data is a Series indexed by (atomic_number, ion_number), one *)
(* row per record here.  The message of the exception is formatted from    *)
(* two arrays: the atomic numbers whose count is off, and those counts.    *)
(***************************************************************************)
RECURSIVE SortInts(_)
SortInts(S) ==
    IF S = {} THEN <<>>
    ELSE LET least == CHOOSE n \in S : \A o \in S : n <= o
         IN <<least>> \o SortInts(S \ {least})

\* series[series.index.isin(selected_atoms, level='atomic_number')]
IsinAtomicNumber(table, selected_atoms) ==
    LET Selected(r) == r.atomic_number \in selected_atoms
    IN SelectSeq(table, Selected)

\* groupby(level='atomic_number').count(): the atomic numbers present, each
\* with its number of rows
CountByAtomicNumber(table) ==
    [z \in {table[i].atomic_number : i \in 1..Len(table)} |->
        Cardinality({i \in 1..Len(table) : table[i].atomic_number = z})]

IonizationData_filter_atomic_property(ionization_data, selected_atoms) ==
    LET filtered == IsinAtomicNumber(ionization_data, selected_atoms)
        counts == CountByAtomicNumber(filtered)
        off == SortInts({z \in DOMAIN counts : z # counts[z]})
    IN IF \A z \in DOMAIN counts : z = counts[z]
       THEN [called |-> TRUE, node |-> "IonizationData", error |-> "None",
             warnings |-> <<>>, message |-> <<>>, ret |-> filtered]
       ELSE [called |-> TRUE, node |-> "IonizationData",
             error |-> "IncompleteAtomicData", warnings |-> <<>>,
             message |-> [index |-> off,
                          counts |-> [i \in 1..Len(off) |-> counts[off[i]]]],
             ret |-> PyNone]

(***************************************************************************)
(* atomic.py: Levels and Lines                                             *)
(*                                                                         *)
(* The restriction to the selected atoms is commented out in both          *)
(* filters: the table comes back as it was passed.                         *)
(***************************************************************************)
Levels_filter_atomic_property(levels, selected_atoms) == levels

\* (levels.index, levels['energy'], levels['metastable'], levels['g'])
Levels_set_index(levels) ==
    [levels |-> [i \in 1..Len(levels) |-> levels[i].key],
     excitation_energy |-> [i \in 1..Len(levels) |-> levels[i].energy],
     metastability |-> [i \in 1..Len(levels) |-> levels[i].metastable],
     g |-> [i \in 1..Len(levels) |-> levels[i].g]]

Lines_filter_atomic_property(lines, selected_atoms) == lines

\* lines, lines['nu'], lines['f_lu'], lines['wavelength_cm']
Lines_set_index(lines) ==
    [lines |-> lines,
     nu |-> [i \in 1..Len(lines) |-> lines[i].nu],
     f_lu |-> [i \in 1..Len(lines) |-> lines[i].f_lu],
     wavelength_cm |-> [i \in 1..Len(lines) |-> lines[i].wavelength_cm]]

(***************************************************************************)
(* atomic.py: ZetaData._filter_atomic_property and _set_index              *)
(*                                                                         *)
(* zeta_data is a DataFrame indexed by (atomic_number, ion_number) with    *)
(* one column per temperature: a row is its key and its values.  The       *)
(* columns atomic_number and ion_number are written from the label codes   *)
(* of the index (the position of a value among the sorted values of its    *)
(* level) plus 1.  Zeta values are in tenths, so 1.0 is 10.                *)
(***************************************************************************)
ZetaOne == 10
NoOfTemperatures == 2

\* index.labels[level]: the code of value v in the level's sorted values
LabelCode(values, v) == Cardinality({o \in values : o < v})

\* the pairs (atom, ion) for atom in selected_atoms, ion in range(1, atom + 2)
RECURSIVE UpdatedIndex(_)
UpdatedIndex(atoms) ==
    IF atoms = <<>> THEN <<>>
    ELSE [ion \in 1..(atoms[1] + 1) |-> <<atoms[1], ion>>]
             \o UpdatedIndex(Tail(atoms))

ZetaData_filter_atomic_property(zeta_data, selected_atoms) ==
    LET atomic_numbers == {zeta_data[i].key[1] : i \in 1..Len(zeta_data)}
        ion_numbers == {zeta_data[i].key[2] : i \in 1..Len(zeta_data)}
        with_columns ==
            [i \in 1..Len(zeta_data) |->
                [key |-> zeta_data[i].key, values |-> zeta_data[i].values,
                 atomic_number |-> LabelCode(atomic_numbers, zeta_data[i].key[1]) + 1,
                 ion_number |-> LabelCode(ion_numbers, zeta_data[i].key[2]) + 1]]
        filtered == IsinAtomicNumber(with_columns, selected_atoms)
        zeta_data_check == CountByAtomicNumber(filtered)
        index == {filtered[i].key : i \in 1..Len(filtered)}
        updated_index == UpdatedIndex(SortInts(selected_atoms))
        InIndex(pair) == pair \in index
        NotInIndex(pair) == pair \notin index
        missing_ions == SelectSeq(updated_index, NotInIndex)
        \* the keys the copy loop reads and writes
        copied == {<<filtered[i].atomic_number, filtered[i].ion_number>> :
                      i \in 1..Len(filtered)}
        RowOf(pair) == filtered[CHOOSE i \in 1..Len(filtered) :
                                    filtered[i].key = pair]
        updated_dataframe ==
            [i \in 1..Len(updated_index) |->
                [key |-> updated_index[i],
                 values |-> IF updated_index[i] \in copied
                            THEN RowOf(updated_index[i]).values
                            ELSE [c \in 1..NoOfTemperatures |-> ZetaOne],
                 atomic_number |-> updated_index[i][1],
                 ion_number |-> updated_index[i][2]]]
    IN IF \A z \in DOMAIN zeta_data_check : z + 1 = zeta_data_check[z]
       THEN [called |-> TRUE, node |-> "ZetaData", error |-> "None",
             warnings |-> <<>>, ret |-> filtered]
       ELSE IF \E pair \in copied : pair \notin index
       THEN [called |-> TRUE, node |-> "ZetaData", error |-> "KeyError",
             warnings |-> <<[text |-> "Zeta_data missing - replaced with 1s",
                             missing_ions |-> missing_ions]>>,
             ret |-> PyNone]
       ELSE [called |-> TRUE, node |-> "ZetaData", error |-> "None",
             warnings |-> <<[text |-> "Zeta_data missing - replaced with 1s",
                             missing_ions |-> missing_ions]>>,
             ret |-> updated_dataframe]

\* the table the caller passed, after the two column assignments that
\* _filter_atomic_property makes on it before it rebinds the name
ZetaData_raw_after_filter(zeta_data) ==
    LET atomic_numbers == {zeta_data[i].key[1] : i \in 1..Len(zeta_data)}
        ion_numbers == {zeta_data[i].key[2] : i \in 1..Len(zeta_data)}
    IN [i \in 1..Len(zeta_data) |->
           [key |-> zeta_data[i].key, values |-> zeta_data[i].values,
            atomic_number |-> LabelCode(atomic_numbers, zeta_data[i].key[1]) + 1,
            ion_number |-> LabelCode(ion_numbers, zeta_data[i].key[2]) + 1]]

\* zeta_data.set_index(['atomic_number', 'ion_number'])
ZetaData_set_index(zeta_data) ==
    [i \in 1..Len(zeta_data) |->
        [key |-> <<zeta_data[i].atomic_number, zeta_data[i].ion_number>>,
         values |-> zeta_data[i].values]]

(***************************************************************************)
(* atomic.py: YgData                                                       *)
(*                                                                         *)
(* A table is its row keys, its column labels and one row of cells per     *)
(* key; a cell is a finite number or nan.  The column labels are the       *)
(* temperatures as numbers, and astype(float) keeps their values.          *)
(* The van Regemorter strength is kept in units in which its constants,    *)
(* h and k_B are 1, so that t * u0 is nu; the factor                       *)
(* max(0.2, 0.276 exp(u0) E1(u0)) stands in tenths as an integer that      *)
(* falls with u0 and is floored at 2.                                      *)
(***************************************************************************)
IsNull(cell) == cell.kind = "nan"

\* DataFrame.empty: no rows or no columns
IsEmpty(table) == Len(table.index) = 0 \/ Len(table.columns) = 0

CellAt(table, key, c) ==
    IF key \in Range(table.index)
    THEN table.values[CHOOSE i \in 1..Len(table.index) : table.index[i] = key][c]
    ELSE NaN

\* the mutant: the cells of the two tables are added
combine_first_sum(this, other) ==
    LET new_index == IF this.index = other.index THEN this.index
                     ELSE SortKeys(Range(this.index) \cup Range(other.index))
        Add(a, b) == IF IsNull(a) THEN b ELSE IF IsNull(b) THEN a
                     ELSE Fin(a.v + b.v)
    IN Table(new_index, this.columns,
             [i \in 1..Len(new_index) |->
                 [c \in 1..Len(this.columns) |->
                     Add(CellAt(this, new_index[i], c),
                         CellAt(other, new_index[i], c))]])

\* the mutant: the cells of other are preferred
combine_first_prefer_other(this, other) ==
    LET new_index == IF this.index = other.index THEN this.index
                     ELSE SortKeys(Range(this.index) \cup Range(other.index))
    IN Table(new_index, this.columns,
             [i \in 1..Len(new_index) |->
                 [c \in 1..Len(this.columns) |->
                     IF IsNull(CellAt(other, new_index[i], c))
                     THEN CellAt(this, new_index[i], c)
                     ELSE CellAt(other, new_index[i], c)]])

\* pandas DataFrame.combine_first: the two tables are aligned on the union
\* of their row keys (this table's own order when the indexes are equal or
\* the other is empty, the sorted union otherwise); a cell is this table's
\* unless that is null
combine_first(this, other) ==
    LET new_index == IF this.index = other.index THEN this.index
                     ELSE SortKeys(Range(this.index) \cup Range(other.index))
    IN IF IsEmpty(other) THEN this
       ELSE IF IsEmpty(this) THEN other
       ELSE Table(new_index, this.columns,
                  [i \in 1..Len(new_index) |->
                      [c \in 1..Len(this.columns) |->
                          IF IsNull(CellAt(this, new_index[i], c))
                          THEN CellAt(other, new_index[i], c)
                          ELSE CellAt(this, new_index[i], c)]])

GauntFactor(nu, t) == Max(2, 8 - 2 * ((2 * nu) \div t))

YgData_calculate_yg_van_regemorter(ad, t_electrons, species) ==
    LET I_H == ad.ionization_data[<<1, 1>>]
        Selected(line) == <<line.key[1], line.key[2]>> \in species
        lines_filtered == SelectSeq(ad.lines, Selected)
        yg == [i \in 1..Len(lines_filtered) |->
                  [c \in 1..Len(t_electrons) |->
                      Fin(lines_filtered[i].f_lu
                          * (I_H \div lines_filtered[i].nu)
                          * (I_H \div lines_filtered[i].nu)
                          * lines_filtered[i].nu
                          * GauntFactor(lines_filtered[i].nu, t_electrons[c]))]]
    IN Table([i \in 1..Len(lines_filtered) |-> lines_filtered[i].key],
             t_electrons, yg)

\* index.droplevel('level_number_lower') and ('level_number_upper')
DropLevelLower(index) ==
    [i \in 1..Len(index) |-> <<index[i][1], index[i][2], index[i][4]>>]
DropLevelUpper(index) ==
    [i \in 1..Len(index) |-> <<index[i][1], index[i][2], index[i][3]>>]

YgData_calculate(ad, species) ==
    LET t_yg == ad.yg_data.columns
        approximate_yg_data == YgData_calculate_yg_van_regemorter(
                                   ad, t_yg, species)
        yg_data == combine_first(ad.yg_data, approximate_yg_data)
        index == yg_data.index
        lu_index == DropLevelLower(index)
        ll_index == DropLevelUpper(index)
        delta_E == [i \in 1..Len(index) |->
                       ad.levels[lu_index[i]] - ad.levels[ll_index[i]]]
    IN [called |-> TRUE, node |-> "YgData", error |-> "None", warnings |-> <<>>,
        approximate_yg_data |-> approximate_yg_data,
        ret |-> [yg_data |-> yg_data, t_yg |-> t_yg, yg_index |-> index,
                 delta_E_yg |-> delta_E,
                 yg_idx |-> [index |-> index,
                             source_level_idx |->
                                 [i \in 1..Len(index) |->
                                     ad.macro_atom_references[ll_index[i]]],
                             destination_level_idx |->
                                 [i \in 1..Len(index) |->
                                     ad.macro_atom_references[lu_index[i]]]]]]

(***************************************************************************)
(* continuum_processes.py: IndexSetterMixin.set_index and the assemblers   *)
(* of the transition probabilities.                                        *)
(*                                                                         *)
(* A transition-probability table is a table whose index is a sequence of  *)
(* triples, one per row, with the names of the three index levels in       *)
(* `names`.  const.h.cgs.value is PlanckConstant in the model's units.     *)
(***************************************************************************)
PlanckConstant == 2

IndexNames == <<"source_level_idx", "destination_level_idx", "transition_type">>

IndexedTable(index, names, columns, values) ==
    [is_none |-> FALSE, index |-> index, names |-> names,
     columns |-> columns, values |-> values]

\* the position of key k in the index of a table
RowOf(table, k) == CHOOSE j \in 1..Len(table.index) : table.index[j] = k

\* the mutant: reverse is ignored
IndexSetterMixin_set_index_never_reversed(p, photo_ion_idx, transition_type, reverse) ==
    LET row(i) == RowOf(photo_ion_idx, p.index[i])
    IN IndexedTable([i \in 1..Len(p.index) |->
                        <<photo_ion_idx.source_level_idx[row(i)],
                          photo_ion_idx.destination_level_idx[row(i)],
                          transition_type>>],
                    IndexNames, p.columns, p.values)

\* idx = photo_ion_idx.loc[p.index]; with reverse the first index level
\* holds idx.destination_level_idx and the second idx.source_level_idx, and
\* the level names are source_level_idx, destination_level_idx,
\* transition_type either way
IndexSetterMixin_set_index(p, photo_ion_idx, transition_type, reverse) ==
    LET row(i) == RowOf(photo_ion_idx, p.index[i])
    IN IndexedTable([i \in 1..Len(p.index) |->
                        IF reverse
                        THEN <<photo_ion_idx.destination_level_idx[row(i)],
                               photo_ion_idx.source_level_idx[row(i)],
                               transition_type>>
                        ELSE <<photo_ion_idx.source_level_idx[row(i)],
                               photo_ion_idx.destination_level_idx[row(i)],
                               transition_type>>],
                    IndexNames, p.columns, p.values)

\* df.multiply(series, axis=0): the rows are aligned on the index.  Equal
\* indexes keep their order; otherwise the result has the sorted union of
\* the keys, and NaN where a key is in one operand only.
MultiplyAxis0(df, series) ==
    LET keys == IF df.index = series.index THEN df.index
                ELSE SortKeys(Range(df.index) \cup Range(series.index))
        cell(k, c) ==
            IF k \in Range(df.index) /\ k \in Range(series.index)
            THEN df.values[RowOf(df, k)][c] * series.values[RowOf(series, k)]
            ELSE "NaN"
    IN Table(keys, df.columns,
             [i \in 1..Len(keys) |->
                 [c \in 1..Len(df.columns) |-> cell(keys[i], c)]])

\* df.multiply(array, axis=0): row i times array[i]
MultiplyRows(df, array) ==
    Table(df.index, df.columns,
          [i \in 1..Len(df.index) |->
              [c \in 1..Len(df.columns) |-> df.values[i][c] * array[i]]])

\* df * scalar
TimesScalar(df, scalar) ==
    Table(df.index, df.columns,
          [i \in 1..Len(df.index) |->
              [c \in 1..Len(df.columns) |-> df.values[i][c] * scalar]])

\* df * per_shell: column c times per_shell[c]
TimesColumns(df, per_shell) ==
    Table(df.index, df.columns,
          [i \in 1..Len(df.index) |->
              [c \in 1..Len(df.columns) |-> df.values[i][c] * per_shell[c]]])

\* df * array, array of the shape of df
TimesArray(df, array) ==
    Table(df.index, df.columns,
          [i \in 1..Len(df.index) |->
              [c \in 1..Len(df.columns) |-> df.values[i][c] * array[i][c]]])

\* the mutant: only the first table
Concat_first_only(tables) == tables[1]

\* pd.concat(tables): the rows of the tables one after the other; the index
\* names are those of the first table (MultiIndex.append)
RECURSIVE Concat(_)
Concat(tables) ==
    IF Len(tables) = 1 THEN tables[1]
    ELSE LET front == Concat(SubSeq(tables, 1, Len(tables) - 1))
             last == tables[Len(tables)]
         IN IndexedTable(front.index \o last.index, front.names,
                         front.columns, front.values \o last.values)

BaseRecombTransProbs_calculate(alpha_sp, nu_i, energy_i, photo_ion_idx) ==
    LET p_recomb_deac ==
            IndexSetterMixin_set_index(
                TimesScalar(MultiplyAxis0(alpha_sp, nu_i), PlanckConstant),
                photo_ion_idx, -1, TRUE)
        p_recomb_internal ==
            IndexSetterMixin_set_index(
                MultiplyAxis0(alpha_sp, energy_i), photo_ion_idx, 0, TRUE)
    IN Concat(<<p_recomb_deac, p_recomb_internal>>)

BasePhotoIonTransProbs_calculate(gamma_corr, nu_i, photo_ion_idx) ==
    IndexSetterMixin_set_index(
        TimesScalar(MultiplyAxis0(gamma_corr, nu_i), PlanckConstant),
        photo_ion_idx, 0, FALSE)

\* the mutant: one group per row, nothing summed
GroupBySum_per_row(p, level) ==
    [index |-> [i \in 1..Len(p.index) |-> p.index[i][level]],
     columns |-> p.columns, values |-> p.values]

\* p.groupby(level=level).sum(): one row per distinct value of the index
\* level, in ascending order, with the column sums of its rows
GroupBySum(p, level) ==
    LET keys == SortInts({p.index[i][level] : i \in 1..Len(p.index)})
        rows(k) == {i \in 1..Len(p.index) : p.index[i][level] = k}
        column(c) == [i \in 1..Len(p.index) |-> p.values[i][c]]
        RECURSIVE total(_, _)
        total(S, c) ==
            IF S = {} THEN 0
            ELSE LET i == CHOOSE r \in S : TRUE
                 IN column(c)[i] + total(S \ {i}, c)
    IN [index |-> keys, columns |-> p.columns,
        values |-> [g \in 1..Len(keys) |->
                       [c \in 1..Len(p.columns) |-> total(rows(keys[g]), c)]]]

\* list(yg_idx.columns): a DataFrame built from a dict has the columns in
\* the order of the dict's keys or sorted by name, by the pandas release
ColumnsModes == {"insertion", "sorted"}

YgIdxColumns(columns_mode) ==
    IF columns_mode = "insertion"
    THEN <<"source_level_idx", "destination_level_idx">>
    ELSE <<"destination_level_idx", "source_level_idx">>

BaseCollisionTransProbs_calculate(coll_exc_coeff, coll_deexc_coeff, yg_idx, electron_densities, delta_E_yg, ad, level_number_density, columns_mode) ==
    LET names == YgIdxColumns(columns_mode) \o <<"transition_type">>
        deexc_deac_grouped ==
            GroupBySum(
                IndexSetterMixin_set_index(
                    MultiplyRows(TimesColumns(coll_deexc_coeff, electron_densities),
                                 delta_E_yg),
                    yg_idx, 0, TRUE),
                1)
        p_deexc_deac ==
            IndexedTable([g \in 1..Len(deexc_deac_grouped.index) |->
                             <<deexc_deac_grouped.index[g], "k", 0>>],
                         names, deexc_deac_grouped.columns,
                         deexc_deac_grouped.values)
        ll_index == DropLevelUpper(coll_deexc_coeff.index)
        energy_lower == [i \in 1..Len(ll_index) |-> ad.levels[ll_index[i]]]
        p_deexc_internal ==
            IndexSetterMixin_set_index(
                MultiplyRows(TimesColumns(coll_deexc_coeff, electron_densities),
                             energy_lower),
                yg_idx, 0, TRUE)
        p_exc_internal ==
            IndexSetterMixin_set_index(
                MultiplyRows(TimesColumns(coll_exc_coeff, electron_densities),
                             energy_lower),
                yg_idx, 0, FALSE)
        exc_cool_grouped ==
            GroupBySum(
                IndexSetterMixin_set_index(
                    TimesArray(
                        MultiplyRows(TimesColumns(coll_exc_coeff, electron_densities),
                                     delta_E_yg),
                        [i \in 1..Len(ll_index) |-> level_number_density[ll_index[i]]]),
                    yg_idx, 0, FALSE),
                2)
        p_exc_cool ==
            IndexedTable([g \in 1..Len(exc_cool_grouped.index) |->
                             <<"k", exc_cool_grouped.index[g], 0>>],
                         names, exc_cool_grouped.columns,
                         exc_cool_grouped.values)
    IN [p_deexc_deac |-> p_deexc_deac,
        p_deexc_internal |-> p_deexc_internal,
        p_exc_internal |-> p_exc_internal,
        p_exc_cool |-> p_exc_cool,
        p_coll |-> Concat(<<p_deexc_deac, p_deexc_internal,
                            p_exc_internal, p_exc_cool>>)]

(***************************************************************************)
(* The property graph.  The node classes and their collections are those   *)
(* of the plasma properties; the registry that instantiates an assembled   *)
(* list of node classes and the engine that evaluates the graph follow     *)
(* the description of the property graph (one owner per output name;       *)
(* writes to an input invalidate every transitive dependent; a request     *)
(* brings the inputs of the owning node up to date, invokes its compute    *)
(* function and caches the outputs).                                       *)
(***************************************************************************)
\* node classes that declare an output another class declares as well, and
\* two that do not; a class name used in two modules carries its module
NodeClasses ==
    {"continuum.SpontRecombRateCoeff", "continuum.PhotoIonRateCoeff",
     "continuum_processes.SpontRecombRateCoeff",
     "continuum_processes.PhotoIonRateCoeff",
     "ZetaData", "PhotoIonRateEstimator"}

\* the class attribute `outputs`
Outputs(class) ==
    CASE class = "continuum.SpontRecombRateCoeff" -> {"alpha_sp"}
      [] class = "continuum.PhotoIonRateCoeff" -> {"gamma"}
      [] class = "continuum_processes.SpontRecombRateCoeff" -> {"alpha_sp"}
      [] class = "continuum_processes.PhotoIonRateCoeff" -> {"gamma"}
      [] class = "ZetaData" -> {"zeta_data"}
      [] class = "PhotoIonRateEstimator" -> {"photo_ion_estimator"}

\* collections are lists: assembling them is list concatenation
AssembleCollections(a, b) == a \o b

\* the nodes of an assembled list that declare the output o
Declaring(modules, o) == {i \in 1..Len(modules) : o \in Outputs(modules[i])}

\* the mutant: every declaration is registered, nothing is rejected
Registry_accept_all(modules) ==
    LET names == UNION {Outputs(modules[j]) : j \in 1..Len(modules)}
    IN [built |-> TRUE, modules |-> modules, error |-> "None",
        owners |-> {<<o, i>> \in names \X (1..Len(modules)) :
                       o \in Outputs(modules[i])}]

\* the registry of an assembled list: the owner (position in the list) of
\* every output name, or a rejection when an output name is declared twice
Registry(modules) ==
    LET names == UNION {Outputs(modules[j]) : j \in 1..Len(modules)}
    IN IF \E o \in names : Cardinality(Declaring(modules, o)) > 1
       THEN [built |-> TRUE, modules |-> modules, error |-> "DuplicateOutput",
             owners |-> {}]
       ELSE [built |-> TRUE, modules |-> modules, error |-> "None",
             owners |-> {<<o, i>> \in names \X (1..Len(modules)) :
                            o \in Outputs(modules[i])}]

\* ---- the nodes of the evaluated graph
\* atomic.py: AtomicMass.calculate; `stored` is the node's own output
\* attribute (None until the first evaluation).  The first evaluation
\* returns the Series of the masses, a later one the 1-tuple of the stored
\* value.
PyReturn(value) == [is_tuple |-> FALSE, value |-> value]
PyReturnTuple(items) == [is_tuple |-> TRUE, value |-> items]

\* the mutant: the masses are looked up on every call
AtomicMass_calculate_fresh(stored, ad, selected_atoms) ==
    PyReturn([is_none |-> FALSE, index |-> selected_atoms,
              values |-> [i \in 1..Len(selected_atoms) |->
                             ad.atom_data[selected_atoms[i]]]])

AtomicMass_calculate(stored, ad, selected_atoms) ==
    IF ~stored.is_none
    THEN PyReturnTuple(<<stored>>)
    ELSE PyReturn([is_none |-> FALSE, index |-> selected_atoms,
                   values |-> [i \in 1..Len(selected_atoms) |->
                                  ad.atom_data[selected_atoms[i]]]])

\* atomic.py: NLTEData.calculate
NLTEData_calculate(stored, ad) ==
    IF ~stored.is_none
    THEN PyReturnTuple(<<stored>>)
    ELSE PyReturn(ad.nlte_data)

\* selected_atoms is the index of the abundances
SelectedAtoms_calculate(abundance) == PyReturn(abundance)

InputNames == {"abundance", "atomic_data", "photo_ion_estimator"}

\* the processing nodes, inputs before their dependents
EvalOrder == <<"SelectedAtoms", "AtomicMass", "NLTEData", "PhotoIonRateCoeff">>
ProcessingNodes == Range(EvalOrder)

\* the parameter names of calculate, and the node that owns each name
NodeInputs(n) ==
    CASE n = "SelectedAtoms" -> {"abundance"}
      [] n = "AtomicMass" -> {"atomic_data", "selected_atoms"}
      [] n = "NLTEData" -> {"atomic_data"}
      [] n = "PhotoIonRateCoeff" -> {"photo_ion_estimator"}

OwnerOf(name) == IF name = "selected_atoms" THEN "SelectedAtoms" ELSE name

\* the processing nodes among the inputs of n
InputNodes(n) == {OwnerOf(a) : a \in NodeInputs(n)} \cap ProcessingNodes

\* the nodes a request of n evaluates, and the nodes a write to an input
\* invalidates (the graph has two layers of processing nodes)
Needed(n) == {n} \cup InputNodes(n)

Dependents(input) ==
    LET direct == {n \in ProcessingNodes : input \in NodeInputs(n)}
    IN direct \cup {n \in ProcessingNodes : InputNodes(n) \cap direct # {}}

\* the threshold-sorted level index the estimators are tallied in
GraphPhotoIonIndexSorted == <<<<1, 0, 0>>>>

\* node.calculate(*inputs) on the values the graph holds
Calculate(p, n) ==
    CASE n = "SelectedAtoms" -> SelectedAtoms_calculate(p.inputs.abundance)
      [] n = "AtomicMass" ->
             AtomicMass_calculate(p.values[n], p.inputs.atomic_data,
                                  p.values["SelectedAtoms"])
      [] n = "NLTEData" -> NLTEData_calculate(p.values[n], p.inputs.atomic_data)
      [] n = "PhotoIonRateCoeff" ->
             PyReturn(continuum_PhotoIonRateCoeff_calculate(
                          p.inputs.photo_ion_estimator, GraphPhotoIonIndexSorted))

\* the value cached under the output name of a node with one output
Cached(ret) == IF ret.is_tuple THEN ret.value[1] ELSE ret.value

\* the compute function of n is invoked and its output cached
Invoke(p, n) ==
    [p EXCEPT !.values[n] = Cached(Calculate(p, n)),
              !.current = @ \cup {n},
              !.calls[n] = @ + 1,
              !.invoked_stale = @ \/ (InputNodes(n) \ p.current # {})]

\* the mutant: every needed node is invoked, current or not
RECURSIVE Evaluate_always(_, _, _)
Evaluate_always(p, order, needed) ==
    IF order = <<>> THEN p
    ELSE IF Head(order) \in needed
         THEN Evaluate_always(Invoke(p, Head(order)), Tail(order), needed)
         ELSE Evaluate_always(p, Tail(order), needed)

\* the needed nodes that are not current are invoked, inputs first
RECURSIVE Evaluate(_, _, _)
Evaluate(p, order, needed) ==
    IF order = <<>> THEN p
    ELSE IF Head(order) \in needed /\ Head(order) \notin p.current
         THEN Evaluate(Invoke(p, Head(order)), Tail(order), needed)
         ELSE Evaluate(p, Tail(order), needed)

\* a request of the output of node n
Request(p, n) ==
    LET evaluated == Evaluate(p, EvalOrder, Needed(n))
    IN [evaluated EXCEPT
           !.last = [requested |-> TRUE, node |-> n,
                     hit |-> Needed(n) \subseteq p.current,
                     calls_before |-> p.calls,
                     value |-> evaluated.values[n]]]

\* a write to an Input node
Write(p, input, v) ==
    [p EXCEPT !.inputs[input] = v,
              !.current = @ \ Dependents(input),
              !.last = [requested |-> FALSE]]

(***************************************************************************)
(* Idle values of the variable groups a specification does not use         *)
(***************************************************************************)
IdleIndex ==
    /\ multi_index_full = <<>>
    /\ ion_call = None
    /\ ion_call_bcd = None
    /\ ground_call = None
    /\ reapply_call = None

IdleInteg ==
    /\ f = <<>>
    /\ x = <<>>
    /\ block_references = <<0>>
    /\ integrated = None

IdlePid ==
    /\ atomic_data = [photoionization_data |-> <<>>]
    /\ continuum_interaction_species = {}
    /\ pid = None
    /\ zero_integrated = None

IdleRate ==
    /\ rate_in = <<>>
    /\ rate_call = None

IdleAtom ==
    /\ atom_in = [node |-> "None"]
    /\ atom_call = None

IdleObj ==
    /\ plasma = [built |-> FALSE]
    /\ cont = [constructed |-> FALSE]
    /\ leg = [loaded |-> FALSE]

(***************************************************************************)
(* SpecIntegrate: a caller of integrate_array_by_blocks                    *)
(***************************************************************************)
\* non-decreasing offsets into n rows, starting at 0, for at most b blocks
BlockReferences(n, b) ==
    {r \in SeqsUpTo(0..n, b + 1) :
        /\ Len(r) >= 1
        /\ r[1] = 0
        /\ \A k \in 1..(Len(r) - 1) : r[k] <= r[k + 1]}

InitIntegrate ==
    /\ IdleObj
    /\ IdleAtom
    /\ IdleIndex
    /\ IdlePid
    /\ IdleRate
    /\ \E n \in 0..MaxSamples :
          /\ f \in [1..n -> [1..NoOfShells -> FVals]]
          /\ x \in [1..n -> XVals]
          /\ block_references \in BlockReferences(n, MaxBlocks)
    /\ integrated = None

CallIntegrate ==
    /\ integrated' = [called |-> TRUE,
                      ret |-> integrate_array_by_blocks(f, x, block_references)]
    /\ UNCHANGED <<f, x, block_references>>
    /\ UNCHANGED notIntegVars

NextIntegrate == CallIntegrate

SpecIntegrate == InitIntegrate /\ [][NextIntegrate]_vars

(***************************************************************************)
(* SpecIndex: callers of the index transforms                              *)
(***************************************************************************)
InitIndex ==
    /\ IdleObj
    /\ IdleAtom
    /\ multi_index_full \in SeqsUpTo(LevelKeys, MaxIdx)
    /\ ion_call = None
    /\ ion_call_bcd = None
    /\ ground_call = None
    /\ reapply_call = None
    /\ IdleInteg
    /\ IdlePid
    /\ IdleRate

CallGetIonMultiIndex ==
    \E next_higher \in BOOLEAN :
        /\ ion_call' = [called |-> TRUE, next_higher |-> next_higher,
                        ret |-> get_ion_multi_index(multi_index_full, next_higher)]
        /\ UNCHANGED <<multi_index_full, ion_call_bcd, ground_call, reapply_call>>
        /\ UNCHANGED notIdxVars

CallBcdGetIonMultiIndex ==
    \E next_higher \in BOOLEAN :
        /\ ion_call_bcd' = [called |-> TRUE, next_higher |-> next_higher,
                            ret |-> BaseContinuumData_get_ion_multi_index(
                                        multi_index_full, next_higher)]
        /\ UNCHANGED <<multi_index_full, ion_call, ground_call, reapply_call>>
        /\ UNCHANGED notIdxVars

CallGetGroundStateMultiIndex ==
    /\ ground_call' = [called |-> TRUE,
                       ret |-> get_ground_state_multi_index(multi_index_full)]
    /\ UNCHANGED <<multi_index_full, ion_call, ion_call_bcd, reapply_call>>
    /\ UNCHANGED notIdxVars

\* a caller hands the index a transform returned back to the same transform,
\* with the same next_higher flag
ReapplyGetIonMultiIndex ==
    /\ ion_call.called
    /\ reapply_call' = [called |-> TRUE, fn |-> "get_ion_multi_index",
                        next_higher |-> ion_call.next_higher,
                        arg |-> ion_call.ret,
                        ret |-> get_ion_multi_index(ion_call.ret,
                                                    ion_call.next_higher)]
    /\ UNCHANGED <<multi_index_full, ion_call, ion_call_bcd, ground_call>>
    /\ UNCHANGED notIdxVars

ReapplyGetGroundStateMultiIndex ==
    /\ ground_call.called
    /\ reapply_call' = [called |-> TRUE, fn |-> "get_ground_state_multi_index",
                        next_higher |-> TRUE,
                        arg |-> ground_call.ret,
                        ret |-> get_ground_state_multi_index(ground_call.ret)]
    /\ UNCHANGED <<multi_index_full, ion_call, ion_call_bcd, ground_call>>
    /\ UNCHANGED notIdxVars

NextIndex ==
    \/ CallGetIonMultiIndex
    \/ CallBcdGetIonMultiIndex
    \/ CallGetGroundStateMultiIndex
    \/ ReapplyGetIonMultiIndex
    \/ ReapplyGetGroundStateMultiIndex

SpecIndex == InitIndex /\ [][NextIndex]_vars

(***************************************************************************)
(* SpecPhotoIon: PhotoIonizationData.calculate on a loaded atomic data set *)
(***************************************************************************)
RawRows ==
    {[atomic_number |-> k[1], ion_number |-> k[2], level_number |-> k[3],
      nu |-> nu, x_sect |-> xs] : k \in PhotoKeys, nu \in NuVals, xs \in XsectVals}

\* levels.energy of a level
EnergyOf(key) == 3 * key[3] + key[2]

\* The atomic data with the raw photoionization table `rows`, lacking the
\* levels of the ions `missing_ions`.  macro_atom_references has one row per
\* level, sorted by level key, and references_idx numbers the rows from 0.
AtomicDataWith(rows, missing_ions) ==
    LET keys == {k \in LevelKeys : <<k[1], k[2]>> \notin missing_ions}
        sorted == SortKeys(keys)
    IN [photoionization_data |-> rows,
        levels |-> [k \in keys |-> EnergyOf(k)],
        macro_atom_references |->
            [k \in keys |-> (CHOOSE i \in 1..Len(sorted) : sorted[i] = k) - 1]]

InitPhotoIon ==
    /\ IdleObj
    /\ IdleAtom
    /\ IdleIndex
    /\ IdleInteg
    /\ IdleRate
    /\ \E rows \in SeqsUpTo(RawRows, MaxRawRows), missing_ions \in SUBSET OptionalIons :
          atomic_data = AtomicDataWith(rows, missing_ions)
    /\ continuum_interaction_species \in SUBSET {<<k[1], k[2]>> : k \in PhotoKeys}
    /\ pid = None
    /\ zero_integrated = None

CalculatePhotoIonizationData ==
    /\ \E mode \in LocModes :
          pid' = PhotoIonizationData_calculate(
                     atomic_data, continuum_interaction_species, mode)
    /\ zero_integrated' = None
    /\ UNCHANGED <<atomic_data, continuum_interaction_species>>
    /\ UNCHANGED notPidVars

\* the zero function over the samples of photo_ion_cross_sections,
\* integrated over photo_ion_block_references
IntegrateZeroFunction ==
    /\ pid.called /\ pid.error = "None"
    /\ LET xsects == pid.ret.photo_ion_cross_sections
           zeros == [r \in 1..Len(xsects) |-> [c \in 1..NoOfShells |-> 0]]
           nu == [r \in 1..Len(xsects) |-> xsects[r].nu]
       IN zero_integrated' =
              [called |-> TRUE,
               ret |-> integrate_array_by_blocks(
                           zeros, nu, pid.ret.photo_ion_block_references)]
    /\ UNCHANGED <<atomic_data, continuum_interaction_species, pid>>
    /\ UNCHANGED notPidVars

NextPhotoIon ==
    \/ CalculatePhotoIonizationData
    \/ IntegrateZeroFunction

SpecPhotoIon == InitPhotoIon /\ [][NextPhotoIon]_vars

(***************************************************************************)
(* SpecRecomb: SpontRecombRateCoeff.calculate on cross sections, block     *)
(* references and a level index of matching lengths                        *)
(***************************************************************************)
CrossSectionRows == {[nu |-> nu, x_sect |-> xs] : nu \in NuVals, xs \in XsectVals}

\* the level index of b blocks: the first b levels of H I
HydrogenLevels(b) == [i \in 1..b |-> <<1, 0, i - 1>>]

InitRecomb ==
    /\ IdleObj
    /\ IdleAtom
    /\ IdleIndex
    /\ IdleInteg
    /\ IdlePid
    /\ \E n \in 0..MaxSamples :
          \E xsects \in [1..n -> CrossSectionRows],
             refs \in BlockReferences(n, MaxBlocks),
             t_electrons \in [1..NoOfShells -> TVals] :
              \E phi_ik \in [Range(HydrogenLevels(Len(refs) - 1))
                                 -> [1..NoOfShells -> PhiVals]] :
                  rate_in = [photo_ion_cross_sections |-> xsects,
                             photo_ion_block_references |-> refs,
                             photo_ion_index |-> HydrogenLevels(Len(refs) - 1),
                             t_electrons |-> t_electrons,
                             phi_ik |-> phi_ik]
    /\ rate_call = None

CalculateSpontRecombRateCoeff ==
    /\ rate_call' = SpontRecombRateCoeff_calculate(
                        rate_in.photo_ion_cross_sections, rate_in.t_electrons,
                        rate_in.photo_ion_block_references,
                        rate_in.photo_ion_index, rate_in.phi_ik)
    /\ UNCHANGED rate_in
    /\ UNCHANGED notRateVars

NextRecomb == CalculateSpontRecombRateCoeff

SpecRecomb == InitRecomb /\ [][NextRecomb]_vars

(***************************************************************************)
(* SpecRates: the gamma and alpha_stim nodes over the iterations of a run. *)
(* The first iteration has no estimators; the Monte Carlo engine then      *)
(* writes them, indexed by level in its own order.                         *)
(***************************************************************************)
VolumeVals == {1, 2}
TimeVals == {2}
EstimatorVals == {0, 4}

\* raw tables whose rows are grouped by level, in ascending key order
GroupedRawTables ==
    {rows \in SeqsUpTo(RawRows, MaxRateRows) :
        \A i \in 1..(Len(rows) - 1) :
            ~KeyLess(<<rows[i + 1].atomic_number, rows[i + 1].ion_number,
                       rows[i + 1].level_number>>,
                     <<rows[i].atomic_number, rows[i].ion_number,
                       rows[i].level_number>>)}

Orderings(index) ==
    {p \in [1..Len(index) -> Range(index)] :
        \A i, j \in 1..Len(index) : i # j => p[i] # p[j]}

\* base_continuum_data.py: the levels by descending threshold frequency
NuSortedIndices(nu_i) ==
    {p \in Orderings(nu_i.index) :
        \A i \in 1..(Len(p) - 1) :
            LET nu_of(k) == nu_i.values[CHOOSE j \in 1..Len(nu_i.index) :
                                            nu_i.index[j] = k]
            IN nu_of(p[i]) >= nu_of(p[i + 1])}

InitRates ==
    /\ IdleObj
    /\ IdleAtom
    /\ IdleIndex
    /\ IdleInteg
    /\ \E rows \in GroupedRawTables : atomic_data = AtomicDataWith(rows, {})
    /\ continuum_interaction_species = {<<k[1], k[2]>> : k \in PhotoKeys}
    /\ pid = None
    /\ zero_integrated = None
    /\ \E t_rad \in [1..NoOfShells -> TVals],
          time_simulation \in TimeVals,
          volume \in [1..NoOfShells -> VolumeVals] :
          rate_in = [t_rad |-> t_rad,
                     w |-> [c \in 1..NoOfShells |-> 1],
                     t_electrons |-> t_rad,
                     phi_ik |-> [k \in LevelKeys |-> [c \in 1..NoOfShells |-> 1]],
                     time_simulation |-> time_simulation,
                     volume |-> volume,
                     gamma_estimator |-> PyNone,
                     alpha_stim_estimator |-> PyNone,
                     photo_ion_estimator |-> PyNone,
                     stim_recomb_estimator |-> PyNone,
                     photo_ion_index_sorted |-> <<>>]
    /\ rate_call = None

\* The engine has tracked packets: it writes the estimator inputs.  The
\* tallies are one value per level; the tables carry them in the order of
\* photo_ion_index or in the engine's frequency-sorted order.
SetEstimators ==
    /\ pid.called /\ pid.error = "None"
    /\ rate_in.gamma_estimator.is_none
    /\ \E sorted \in NuSortedIndices(pid.ret.nu_i),
          tallies \in [1..Len(pid.ret.photo_ion_index) -> EstimatorVals] :
          \E index \in {pid.ret.photo_ion_index, sorted} :
              LET values == [i \in 1..Len(index) |->
                                [c \in 1..NoOfShells |-> tallies[i]]]
              IN rate_in' = [rate_in EXCEPT
                     !.gamma_estimator = Table(index, Arange(NoOfShells), values),
                     !.alpha_stim_estimator = Table(index, Arange(NoOfShells), values),
                     !.photo_ion_estimator = [is_none |-> FALSE, values |-> values],
                     !.stim_recomb_estimator = [is_none |-> FALSE, values |-> values],
                     !.photo_ion_index_sorted = sorted]
    /\ UNCHANGED rate_call
    /\ UNCHANGED notRateVars

\* what a node's record keeps of the call: the estimator it was given and
\* the factors of the estimator normalisation
RateCall(node, estimator, ret) ==
    [called |-> TRUE, node |-> node, error |-> "None",
     estimator |-> estimator,
     time_simulation |-> rate_in.time_simulation, volume |-> rate_in.volume,
     photo_ion_index |-> pid.ret.photo_ion_index,
     ret |-> ret]

CalculatePhotoIonRateCoeff ==
    /\ pid.called /\ pid.error = "None"
    /\ rate_call' = RateCall("PhotoIonRateCoeff", rate_in.gamma_estimator,
           PhotoIonRateCoeff_calculate(
               pid.ret.photo_ion_cross_sections, rate_in.gamma_estimator,
               PhotoIonEstimatorsNormFactor_calculate(rate_in.time_simulation,
                                                      rate_in.volume),
               pid.ret.photo_ion_block_references, pid.ret.photo_ion_index,
               rate_in.t_rad, rate_in.w))
    /\ UNCHANGED rate_in
    /\ UNCHANGED notRateVars

CalculateStimRecombRateCoeff ==
    /\ pid.called /\ pid.error = "None"
    /\ rate_call' = RateCall("StimRecombRateCoeff", rate_in.alpha_stim_estimator,
           StimRecombRateCoeff_calculate(
               pid.ret.photo_ion_cross_sections, rate_in.alpha_stim_estimator,
               PhotoIonEstimatorsNormFactor_calculate(rate_in.time_simulation,
                                                      rate_in.volume),
               pid.ret.photo_ion_block_references, pid.ret.photo_ion_index,
               rate_in.t_rad, rate_in.w, rate_in.phi_ik, rate_in.t_electrons))
    /\ UNCHANGED rate_in
    /\ UNCHANGED notRateVars

CalculateContinuumPhotoIonRateCoeff ==
    /\ pid.called /\ pid.error = "None"
    /\ rate_call' = RateCall("continuum.PhotoIonRateCoeff",
           rate_in.photo_ion_estimator,
           continuum_PhotoIonRateCoeff_calculate(rate_in.photo_ion_estimator,
                                                 rate_in.photo_ion_index_sorted))
    /\ UNCHANGED rate_in
    /\ UNCHANGED notRateVars

CalculateContinuumStimRecombRateCoeff ==
    /\ pid.called /\ pid.error = "None"
    /\ rate_call' = RateCall("continuum.StimRecombRateCoeff",
           rate_in.stim_recomb_estimator,
           continuum_StimRecombRateCoeff_calculate(rate_in.stim_recomb_estimator,
                                                   rate_in.photo_ion_index_sorted,
                                                   rate_in.phi_ik))
    /\ UNCHANGED rate_in
    /\ UNCHANGED notRateVars

NextRates ==
    \/ CalculatePhotoIonizationData
    \/ SetEstimators
    \/ CalculatePhotoIonRateCoeff
    \/ CalculateStimRecombRateCoeff
    \/ CalculateContinuumPhotoIonRateCoeff
    \/ CalculateContinuumStimRecombRateCoeff

SpecRates == InitRates /\ [][NextRates]_vars

(***************************************************************************)
(* SpecCorr: CorrPhotoIonRateCoeff.calculate on gamma and alpha_stim       *)
(* tables of one index and on number densities that may be 0               *)
(***************************************************************************)
GammaVals == {0, 2}
AlphaStimVals == {0, 2}
IonDensityVals == {0, 1}
LevelDensityVals == {0, 1, 2}
ElectronDensityVals == {1}

\* one value per level, the same in every shell
PerLevel(index, values) ==
    DataFrame([i \in 1..Len(index) |-> [c \in 1..NoOfShells |-> values[i]]],
              index)

InitCorr ==
    /\ IdleObj
    /\ IdleAtom
    /\ IdleIndex
    /\ IdleInteg
    /\ IdlePid
    /\ \E n \in 1..Min(MaxIdx, Cardinality(PhotoKeys)) :
          LET index == SubSeq(SortKeys(PhotoKeys), 1, n)
              ions == Range(get_ion_multi_index(index, TRUE))
          IN \E g \in [1..n -> GammaVals], a \in [1..n -> AlphaStimVals],
                n_e \in [1..NoOfShells -> ElectronDensityVals],
                n_k \in [ions -> IonDensityVals],
                n_i \in [Range(index) -> [1..NoOfShells -> LevelDensityVals]] :
                 rate_in = [gamma |-> PerLevel(index, g),
                            alpha_stim |-> PerLevel(index, a),
                            electron_densities |-> n_e,
                            ion_number_density |->
                                [k \in ions |-> [c \in 1..NoOfShells |-> n_k[k]]],
                            level_number_density |-> n_i]
    /\ rate_call = None

CalculateCorrPhotoIonRateCoeff ==
    /\ rate_call' = CorrPhotoIonRateCoeff_calculate(
                        rate_in.gamma, rate_in.alpha_stim,
                        rate_in.electron_densities, rate_in.ion_number_density,
                        rate_in.level_number_density)
    /\ UNCHANGED rate_in
    /\ UNCHANGED notRateVars

NextCorr == CalculateCorrPhotoIonRateCoeff

SpecCorr == InitCorr /\ [][NextCorr]_vars

(***************************************************************************)
(* C1: CorrPhotoIonRateCoeff.calculate either returns a gamma_corr table   *)
(* whose every entry, for every level and shell, is >= 0, or raises        *)
(* PlasmaException and returns nothing.                                    *)
(***************************************************************************)
IsNonNegative(y) == y.kind # "nan" /\ y.v >= 0

C1_Original_NonNegativeOrException ==
    (rate_call.called /\ rate_call.node = "CorrPhotoIonRateCoeff") =>
        \/ rate_call.error = "PlasmaException" /\ rate_call.ret.is_none
        \/ /\ rate_call.error = "None"
           /\ ~rate_call.ret.is_none
           /\ \A i \in 1..Len(rate_call.ret.index), c \in 1..NoOfShells :
                  IsNonNegative(rate_call.ret.values[i][c])

(***************************************************************************)
(* C6: for gamma and alpha_stim, in every call: without an estimator the   *)
(* coefficient is a table over photo_ion_index, never None and never an    *)
(* error; with an estimator it is the estimator times                      *)
(* 1 / (time_simulation * volume * h).                                     *)
(***************************************************************************)
GammaAlphaStimNodes ==
    {"PhotoIonRateCoeff", "StimRecombRateCoeff",
     "continuum.PhotoIonRateCoeff", "continuum.StimRecombRateCoeff"}

C6_Original_BranchByEstimator ==
    (rate_call.called /\ rate_call.node \in GammaAlphaStimNodes) =>
        /\ rate_call.error = "None"
        /\ ~rate_call.ret.is_none
        /\ IF rate_call.estimator.is_none
           THEN rate_call.ret.index = rate_call.photo_ion_index
           ELSE \A i \in 1..Len(rate_call.estimator.values), c \in 1..NoOfShells :
                    rate_call.ret.values[i][c]
                        * (rate_call.time_simulation * rate_call.volume[c])
                    = rate_call.estimator.values[i][c]

(***************************************************************************)
(* C7: when a gamma or alpha_stim node of continuum_processes.py is        *)
(* calculated again for the same atomic data and shells, once without and  *)
(* once with an estimator, the two tables have the same row keys in the    *)
(* same order and the same shell columns.                                  *)
(***************************************************************************)
C7_Original_SameIndexing ==
    [][(/\ rate_call.called /\ rate_call'.called
        /\ rate_call.node \in {"PhotoIonRateCoeff", "StimRecombRateCoeff"}
        /\ rate_call'.node = rate_call.node
        /\ rate_call'.photo_ion_index = rate_call.photo_ion_index
        /\ rate_call'.estimator.is_none # rate_call.estimator.is_none)
       => (/\ rate_call'.ret.index = rate_call.ret.index
           /\ rate_call'.ret.columns = rate_call.ret.columns)]_vars

(***************************************************************************)
(* C3: a block with 0 or 1 samples integrates to 0 in every column of      *)
(* integrate_array_by_blocks, and so alpha_sp of a level with a single     *)
(* cross-section sample is 0 in every shell, for every phi_ik and          *)
(* t_electrons.                                                            *)
(***************************************************************************)
C3_ShortBlocksIntegrateToZero ==
    (rate_call.called /\ rate_call.node = "SpontRecombRateCoeff") =>
        LET refs == rate_in.photo_ion_block_references
        IN \A b \in 1..(Len(refs) - 1) :
               refs[b + 1] - refs[b] <= 1 =>
                   \A c \in 1..NoOfShells :
                       /\ rate_call.integrated[b][c] = 0
                       /\ rate_call.ret.values[b][c] = 0

\* a level with one sample, followed by a level with two samples whose
\* alpha_sp is not 0
C3_Witness ==
    /\ rate_call.called /\ rate_call.node = "SpontRecombRateCoeff"
    /\ rate_in.photo_ion_block_references = <<0, 1, 3>>
    /\ rate_call.ret.values[1][1] = 0
    /\ rate_call.ret.values[2][1] # 0
    /\ rate_in.phi_ik[<<1, 0, 0>>][1] = 2

(***************************************************************************)
(* C8: get_ground_state_multi_index maps the key at every position i,      *)
(* (atomic_number, ion_number, level_number), to                           *)
(* (atomic_number, ion_number + 1, 0) at the same position; the output has *)
(* the length and the row order of the input.                              *)
(***************************************************************************)
C8_GroundStateKeys ==
    ground_call.called =>
        /\ Len(ground_call.ret) = Len(multi_index_full)
        /\ \A i \in 1..Len(multi_index_full) :
               ground_call.ret[i] =
                   <<multi_index_full[i][1], multi_index_full[i][2] + 1, 0>>

C8_Witness ==
    /\ ground_call.called
    /\ Len(multi_index_full) >= 2
    /\ multi_index_full[1] # multi_index_full[2]
    /\ multi_index_full[1][3] # 0
    /\ ground_call.ret[1] # ground_call.ret[2]

(***************************************************************************)
(* C9: get_ion_multi_index maps the key at every position i to             *)
(* (atomic_number, ion_number + 1) when next_higher is true and to         *)
(* (atomic_number, ion_number) when it is false, keeping length and row    *)
(* order; BaseContinuumData._get_ion_multi_index computes the same.        *)
(***************************************************************************)
IonKeysOf(call) ==
    /\ Len(call.ret) = Len(multi_index_full)
    /\ \A i \in 1..Len(multi_index_full) :
           call.ret[i] = <<multi_index_full[i][1],
                           multi_index_full[i][2]
                               + (IF call.next_higher THEN 1 ELSE 0)>>

C9_IonKeys ==
    /\ ion_call.called => IonKeysOf(ion_call)
    /\ ion_call_bcd.called => IonKeysOf(ion_call_bcd)
    /\ (ion_call.called /\ ion_call_bcd.called
          /\ ion_call.next_higher = ion_call_bcd.next_higher)
        => ion_call.ret = ion_call_bcd.ret

C9_Witness ==
    /\ ion_call.called /\ ion_call_bcd.called
    /\ ~ion_call.next_higher /\ ~ion_call_bcd.next_higher
    /\ Len(multi_index_full) >= 2
    /\ multi_index_full[1][2] # multi_index_full[2][2]
    /\ ion_call.ret[1] # ion_call.ret[2]

(***************************************************************************)
(* C2: integrate_array_by_blocks(f, x, block_references), with             *)
(* block_references of length B + 1, returns B rows of one entry per       *)
(* column of f, and entry (b, c) is the trapezoidal-rule integral of       *)
(* column c over the rows block_references[b] .. block_references[b+1]-1:  *)
(* the sum, over the pairs of neighbouring rows r, r+1 inside the block,   *)
(* of (x[r+1] - x[r]) * (f[r+1, c] + f[r, c]) / 2.  No other row and no    *)
(* other column enters the entry.                                          *)
(***************************************************************************)
RECURSIVE TrapezoidSum2(_, _, _)
\* twice the trapezoidal sum of column c (1-based) over the 1-based rows
\* lo..hi
TrapezoidSum2(c, lo, hi) ==
    IF hi <= lo THEN 0
    ELSE (x[hi] - x[hi - 1]) * (f[hi][c] + f[hi - 1][c])
           + TrapezoidSum2(c, lo, hi - 1)

C2_BlockIntegral ==
    integrated.called =>
        /\ Len(integrated.ret) = Len(block_references) - 1
        /\ \A b \in 1..(Len(block_references) - 1) :
               /\ Len(integrated.ret[b]) = NoOfShells
               /\ \A c \in 1..NoOfShells :
                      2 * integrated.ret[b][c] =
                          TrapezoidSum2(c, block_references[b] + 1,
                                        block_references[b + 1])

\* a block of two samples with a non-zero integral that differs between the
\* columns, followed by a row that is not part of it
C2_Witness ==
    /\ integrated.called
    /\ Len(block_references) >= 2
    /\ Len(f) > block_references[2]
    /\ block_references[2] - block_references[1] >= 2
    /\ integrated.ret[1][1] # 0
    /\ integrated.ret[1][1] # integrated.ret[1][2]
    /\ f[block_references[2] + 1][1] # 0

(***************************************************************************)
(* Claims about PhotoIonizationData.calculate                              *)
(***************************************************************************)
PidOk == pid.called /\ pid.error = "None"

\* the rows of the raw table that belong to the selected species, as sets of
\* row numbers and of level keys
SelectedRawRows ==
    {i \in 1..Len(atomic_data.photoionization_data) :
        <<atomic_data.photoionization_data[i].atomic_number,
          atomic_data.photoionization_data[i].ion_number>>
            \in continuum_interaction_species}

RawKey(i) ==
    <<atomic_data.photoionization_data[i].atomic_number,
      atomic_data.photoionization_data[i].ion_number,
      atomic_data.photoionization_data[i].level_number>>

LevelsWithData == {RawKey(i) : i \in SelectedRawRows}

\* the i-th (1-based) level with photoionization data in ascending key order
LevelInKeyOrder(i) ==
    CHOOSE k \in LevelsWithData :
        Cardinality({o \in LevelsWithData : KeyLess(o, k)}) = i - 1

SamplesOf(k) == Cardinality({i \in SelectedRawRows : RawKey(i) = k})

(***************************************************************************)
(* C4: photo_ion_block_references starts at 0, is non-decreasing, has one  *)
(* more entry than there are distinct levels with photoionization data,    *)
(* the difference block_references[i+1] - block_references[i] is the       *)
(* number of cross-section samples of level i (the levels counted in       *)
(* ascending key order, the order of the groupby that counts them), the    *)
(* differences sum to the number of rows of photo_ion_cross_sections, and  *)
(* integrating an all-zero f over these blocks gives zero in every block   *)
(* and column.                                                             *)
(***************************************************************************)
C4_BlockReferences ==
    PidOk =>
        LET refs == pid.ret.photo_ion_block_references
            B == Len(refs) - 1
        IN /\ refs[1] = 0
           /\ \A i \in 1..B : refs[i] <= refs[i + 1]
           /\ B = Cardinality(LevelsWithData)
           /\ B = Len(pid.ret.photo_ion_index)
           /\ \A i \in 1..B : refs[i + 1] - refs[i] = SamplesOf(LevelInKeyOrder(i))
           /\ SumSeq([i \in 1..B |-> refs[i + 1] - refs[i]])
                  = Len(pid.ret.photo_ion_cross_sections)
           /\ zero_integrated.called =>
                  /\ Len(zero_integrated.ret) = B
                  /\ \A b \in 1..B : \A c \in 1..NoOfShells :
                         zero_integrated.ret[b][c] = 0

\* two levels, one with two samples and one with one, a row of an
\* unselected species filtered away, and the zero function integrated
C4_Witness ==
    /\ PidOk
    /\ zero_integrated.called
    /\ Len(pid.ret.photo_ion_block_references) = 3
    /\ Len(pid.ret.photo_ion_cross_sections) = 3
    /\ pid.ret.photo_ion_block_references[2] = 2

NextIonHasNoLevels(k) ==
    \A l \in DOMAIN atomic_data.levels : <<l[1], l[2]>> # <<k[1], k[2] + 1>>

C10_Original_IncompleteAtomicData ==
    (pid.called /\ \E k \in LevelsWithData : NextIonHasNoLevels(k)) =>
        /\ pid.error = "IncompleteAtomicData"
        /\ pid.ret = NoResult

(***************************************************************************)
(* C11: applied to its own output with the same next_higher flag, a        *)
(* transform steps once more: get_ion_multi_index returns its input        *)
(* unchanged only for next_higher False and raises ion_number by one more  *)
(* for True, and get_ground_state_multi_index raises ion_number by one     *)
(* more and keeps level 0.  get_ion_multi_index is many-to-one: two level  *)
(* keys get the same ion key exactly when they agree in atomic_number and  *)
(* ion_number.                                                             *)
(***************************************************************************)
SameIon(a, b) == a[1] = b[1] /\ a[2] = b[2]

C11_ReapplicationSteps ==
    /\ (reapply_call.called /\ reapply_call.fn = "get_ion_multi_index") =>
           /\ Len(reapply_call.ret) = Len(reapply_call.arg)
           /\ \A i \in 1..Len(reapply_call.arg) :
                  reapply_call.ret[i] =
                      <<reapply_call.arg[i][1],
                        reapply_call.arg[i][2]
                            + (IF reapply_call.next_higher THEN 1 ELSE 0)>>
           /\ (reapply_call.ret = reapply_call.arg)
                  <=> (~reapply_call.next_higher \/ reapply_call.arg = <<>>)
    /\ (reapply_call.called /\ reapply_call.fn = "get_ground_state_multi_index") =>
           /\ Len(reapply_call.ret) = Len(reapply_call.arg)
           /\ \A i \in 1..Len(reapply_call.arg) :
                  reapply_call.ret[i] =
                      <<reapply_call.arg[i][1], reapply_call.arg[i][2] + 1, 0>>
    /\ ion_call.called =>
           \A i, j \in 1..Len(multi_index_full) :
               (ion_call.ret[i] = ion_call.ret[j])
                   <=> SameIon(multi_index_full[i], multi_index_full[j])

\* next_higher True re-applied to the ion keys of two different levels of
\* one ion: the keys coincide and the second application moves them
C11_Witness ==
    /\ reapply_call.called /\ reapply_call.fn = "get_ion_multi_index"
    /\ reapply_call.next_higher
    /\ Len(multi_index_full) >= 2
    /\ multi_index_full[1] # multi_index_full[2]
    /\ reapply_call.arg = get_ion_multi_index(multi_index_full, TRUE)
    /\ reapply_call.arg[1] = reapply_call.arg[2]
    /\ reapply_call.ret # reapply_call.arg

\* the statement as the specification words it: idempotent and one-to-one
C11_Original_IdempotentBijective ==
    /\ reapply_call.called => reapply_call.ret = reapply_call.arg
    /\ ion_call.called =>
           \A i, j \in 1..Len(multi_index_full) :
               multi_index_full[i] # multi_index_full[j]
                   => ion_call.ret[i] # ion_call.ret[j]

(***************************************************************************)
(* SpecAtomic: the atomic property nodes IonizationData, ZetaData and      *)
(* YgData, each evaluated on the inputs the graph resolved for it          *)
(***************************************************************************)
Elements == 1..MaxZ

IonizationPairs == {zi \in Elements \X (1..MaxZ) : zi[2] <= zi[1]}

\* the Series with the rows `pairs`, sorted by key
IonizationTable(pairs) ==
    LET sorted == SortKeys(pairs)
    IN [i \in 1..Len(sorted) |->
           [atomic_number |-> sorted[i][1], ion_number |-> sorted[i][2],
            ionization_energy |-> 10 * sorted[i][1] + sorted[i][2]]]

InitIonizationData ==
    \E pairs \in SUBSET IonizationPairs, selected_atoms \in SUBSET Elements :
        atom_in = [node |-> "IonizationData",
                   ionization_data |-> IonizationTable(pairs),
                   selected_atoms |-> selected_atoms]

ZetaPairs == {zi \in (1..MaxZetaZ) \X (1..(MaxZetaZ + 1)) : zi[2] <= zi[1] + 1}

\* the zeta table with the rows `pairs`, sorted by key
ZetaTable(pairs) ==
    LET sorted == SortKeys(pairs)
    IN [i \in 1..Len(sorted) |->
           [key |-> sorted[i],
            values |-> [c \in 1..NoOfTemperatures |-> sorted[i][2] + c]]]

InitZetaData ==
    \E pairs \in SUBSET ZetaPairs, selected_atoms \in SUBSET (1..MaxZetaZ) :
        atom_in = [node |-> "ZetaData",
                   zeta_data |-> ZetaTable(pairs),
                   selected_atoms |-> selected_atoms]

\* the collision transitions of the model: lower level 0, upper level 1
LineKeys == {<<1, 0, 0, 1>>, <<2, 0, 0, 1>>, <<2, 1, 0, 1>>}
YgTemperatures == <<1, 2>>
TabulatedCells == {Fin(5), NaN}

\* atomic_data.lines: every transition, sorted by key
LinesTable ==
    LET sorted == SortKeys(LineKeys)
    IN [i \in 1..Len(sorted) |->
           [key |-> sorted[i], f_lu |-> sorted[i][1], nu |-> sorted[i][2] + 1]]

\* the tabulated tables: distinct transitions in any row order
TabulatedTables ==
    {Table(index, YgTemperatures, values) :
        index \in {o \in SeqsUpTo(LineKeys, Cardinality(LineKeys)) :
                      \A i, j \in 1..Len(o) : i # j => o[i] # o[j]},
        values \in UNION {[1..n -> [1..Len(YgTemperatures) -> TabulatedCells]] :
                             n \in 0..Cardinality(LineKeys)}}

InitYgData ==
    \E yg_data \in {t \in TabulatedTables : Len(t.index) = Len(t.values)},
       species \in SUBSET {<<k[1], k[2]>> : k \in LineKeys} :
        atom_in = [node |-> "YgData",
                   atomic_data |->
                       [levels |-> AtomicDataWith(<<>>, {}).levels,
                        macro_atom_references |->
                            AtomicDataWith(<<>>, {}).macro_atom_references,
                        ionization_data |-> [zi \in {<<1, 1>>} |-> 2],
                        lines |-> LinesTable,
                        yg_data |-> yg_data],
                   continuum_interaction_species |-> species]

\* the levels of the model: two of H I, the ground levels of He I and He II
LevelsKeys == {<<1, 0, 0>>, <<1, 0, 1>>, <<2, 0, 0>>, <<2, 1, 0>>}

\* atomic_data.levels with the rows `keys`, sorted by key
LevelsTable(keys) ==
    LET sorted == SortKeys(keys)
    IN [i \in 1..Len(sorted) |->
           [key |-> sorted[i], energy |-> 3 * sorted[i][3],
            metastable |-> sorted[i][3] = 0, g |-> 2 * sorted[i][1]]]

InitLevels ==
    \E keys \in SUBSET LevelsKeys, selected_atoms \in SUBSET AtomicNumbers :
        atom_in = [node |-> "Levels", levels |-> LevelsTable(keys),
                   selected_atoms |-> selected_atoms]

\* atomic_data.lines with the transitions `keys`, by line_id
LinesTableOf(keys) ==
    LET sorted == SortKeys(keys)
    IN [i \in 1..Len(sorted) |->
           [line_id |-> i, atomic_number |-> sorted[i][1],
            ion_number |-> sorted[i][2], nu |-> sorted[i][2] + 1,
            f_lu |-> sorted[i][1], wavelength_cm |-> 4 - sorted[i][2]]]

InitLines ==
    \E keys \in SUBSET LineKeys, selected_atoms \in SUBSET AtomicNumbers :
        atom_in = [node |-> "Lines", lines |-> LinesTableOf(keys),
                   selected_atoms |-> selected_atoms]

InitAtomic ==
    /\ IdleObj
    /\ IdleIndex
    /\ IdleInteg
    /\ IdlePid
    /\ IdleRate
    /\ \/ InitIonizationData
       \/ InitZetaData
       \/ InitYgData
       \/ InitLevels
       \/ InitLines
    /\ atom_call = None

CalculateYgData ==
    /\ atom_in.node = "YgData"
    /\ atom_call' = YgData_calculate(atom_in.atomic_data,
                                     atom_in.continuum_interaction_species)
    /\ UNCHANGED atom_in
    /\ UNCHANGED notAtomVars

\* a caller merges the tabulated table with itself
CombineFirstWithItself ==
    /\ atom_in.node = "YgData"
    /\ atom_call' = [called |-> TRUE, node |-> "combine_first",
                     error |-> "None", warnings |-> <<>>,
                     this |-> atom_in.atomic_data.yg_data,
                     other |-> atom_in.atomic_data.yg_data,
                     ret |-> combine_first(atom_in.atomic_data.yg_data,
                                           atom_in.atomic_data.yg_data)]
    /\ UNCHANGED atom_in
    /\ UNCHANGED notAtomVars

\* the node's evaluation: the filter, then _set_index on what it returned
FilterZetaData ==
    /\ atom_in.node = "ZetaData"
    /\ LET filtered == ZetaData_filter_atomic_property(atom_in.zeta_data,
                                                       atom_in.selected_atoms)
       IN atom_call' = IF filtered.error = "None"
                       THEN [filtered EXCEPT !.ret = ZetaData_set_index(filtered.ret)]
                       ELSE filtered
    /\ atom_in' = [atom_in EXCEPT
                      !.zeta_data = ZetaData_raw_after_filter(atom_in.zeta_data)]
    /\ UNCHANGED notAtomVars

FilterIonizationData ==
    /\ atom_in.node = "IonizationData"
    /\ atom_call' = IonizationData_filter_atomic_property(
                        atom_in.ionization_data, atom_in.selected_atoms)
    /\ UNCHANGED atom_in
    /\ UNCHANGED notAtomVars

\* the evaluation of the Levels node: the filter, then _set_index
FilterLevels ==
    /\ atom_in.node = "Levels"
    /\ atom_call' = [called |-> TRUE, node |-> "Levels", error |-> "None",
                     warnings |-> <<>>,
                     ret |-> Levels_set_index(Levels_filter_atomic_property(
                                 atom_in.levels, atom_in.selected_atoms))]
    /\ UNCHANGED atom_in
    /\ UNCHANGED notAtomVars

FilterLines ==
    /\ atom_in.node = "Lines"
    /\ atom_call' = [called |-> TRUE, node |-> "Lines", error |-> "None",
                     warnings |-> <<>>,
                     ret |-> Lines_set_index(Lines_filter_atomic_property(
                                 atom_in.lines, atom_in.selected_atoms))]
    /\ UNCHANGED atom_in
    /\ UNCHANGED notAtomVars

NextAtomic ==
    \/ FilterIonizationData
    \/ FilterZetaData
    \/ CalculateYgData
    \/ CombineFirstWithItself
    \/ FilterLevels
    \/ FilterLines

SpecAtomic == InitAtomic /\ [][NextAtomic]_vars

(***************************************************************************)
(* C12: IonizationData returns the ionization data of the selected         *)
(* elements when every pair (Z, 1..Z) of every selected element Z has an   *)
(* entry, and otherwise raises IncompleteAtomicData with a message that    *)
(* names the missing (atomic_number, ion_number) pairs.                    *)
(***************************************************************************)
PairsOf(table) ==
    {<<table[i].atomic_number, table[i].ion_number>> : i \in 1..Len(table)}

\* the pairs "(a, b)" the message is formatted from
PairsNamed(message) ==
    {<<message.index[i], message.counts[i]>> : i \in 1..Len(message.index)}

MissingIonizationPairs ==
    {zi \in atom_in.selected_atoms \X (1..MaxZ) : zi[2] <= zi[1]}
        \ PairsOf(atom_in.ionization_data)

C12_Original_CompleteOrNamedError ==
    (atom_call.called /\ atom_call.node = "IonizationData") =>
        IF MissingIonizationPairs = {}
        THEN /\ atom_call.error = "None"
             /\ atom_call.ret = IsinAtomicNumber(atom_in.ionization_data,
                                                 atom_in.selected_atoms)
        ELSE /\ atom_call.error = "IncompleteAtomicData"
             /\ PairsNamed(atom_call.message) = MissingIonizationPairs

(***************************************************************************)
(* C13: when zeta data are missing for some (atomic_number, ion_number)    *)
(* pairs of the selected atoms, ZetaData's result has a row for every      *)
(* required pair, the rows of exactly the missing pairs hold 1.0 in every  *)
(* temperature column, and every present pair keeps its input values.      *)
(***************************************************************************)
RequiredZetaPairs ==
    {zi \in atom_in.selected_atoms \X (1..(MaxZetaZ + 1)) : zi[2] <= zi[1] + 1}

PresentZetaPairs ==
    {atom_in.zeta_data[i].key : i \in 1..Len(atom_in.zeta_data)}

ZetaInputValues(pair) ==
    atom_in.zeta_data[CHOOSE i \in 1..Len(atom_in.zeta_data) :
                          atom_in.zeta_data[i].key = pair].values

C13_Original_MissingFilledWithOne ==
    (/\ atom_call.called /\ atom_call.node = "ZetaData"
     /\ RequiredZetaPairs \ PresentZetaPairs # {}) =>
        /\ atom_call.error = "None"
        /\ {atom_call.ret[i].key : i \in 1..Len(atom_call.ret)} = RequiredZetaPairs
        /\ \A i \in 1..Len(atom_call.ret) :
               atom_call.ret[i].values =
                   IF atom_call.ret[i].key \in PresentZetaPairs
                   THEN ZetaInputValues(atom_call.ret[i].key)
                   ELSE [c \in 1..NoOfTemperatures |-> ZetaOne]

(***************************************************************************)
(* C14: every fallback substitution is logged as a warning and raises      *)
(* nothing: when ZetaData fills a missing pair with 1.0, and when YgData   *)
(* takes the van Regemorter value for a transition without a tabulated     *)
(* collision strength.                                                     *)
(***************************************************************************)
\* the (transition, temperature) cells of the merged table that come from
\* the approximation
ApproximatedCells ==
    {kc \in Range(atom_call.approximate_yg_data.index)
            \X (1..Len(YgTemperatures)) :
        IsNull(CellAt(atom_in.atomic_data.yg_data, kc[1], kc[2]))}

C14_Original_FallbackLogged ==
    /\ (/\ atom_call.called /\ atom_call.node = "ZetaData"
        /\ atom_call.error = "None"
        /\ \E i \in 1..Len(atom_call.ret) :
               /\ atom_call.ret[i].key \notin PresentZetaPairs
               /\ atom_call.ret[i].values = [c \in 1..NoOfTemperatures |-> ZetaOne])
           => atom_call.warnings # <<>>
    /\ (/\ atom_call.called /\ atom_call.node = "YgData"
        /\ ApproximatedCells # {})
           => (atom_call.error = "None" /\ atom_call.warnings # <<>>)

(***************************************************************************)
(* C15: in the merged yg_data the rows are the union of the rows of the    *)
(* tabulated and of the van Regemorter table, and every cell is the        *)
(* tabulated value where there is one, the van Regemorter value where      *)
(* there is none, and never a mix of the two.                              *)
(***************************************************************************)
C15_TabulatedPreferred ==
    (atom_call.called /\ atom_call.node = "YgData") =>
        LET tabulated == atom_in.atomic_data.yg_data
            approximate == atom_call.approximate_yg_data
            merged == atom_call.ret.yg_data
        IN /\ Range(merged.index) = Range(tabulated.index) \cup Range(approximate.index)
           /\ Len(merged.index) = Cardinality(Range(merged.index))
           /\ \A i \in 1..Len(merged.index), c \in 1..Len(YgTemperatures) :
                  merged.values[i][c] =
                      IF ~IsNull(CellAt(tabulated, merged.index[i], c))
                      THEN CellAt(tabulated, merged.index[i], c)
                      ELSE CellAt(approximate, merged.index[i], c)

\* a transition only tabulated, one only approximated, and one with both
\* whose tabulated value is kept in one column and missing in the other
C15_Witness ==
    /\ atom_call.called /\ atom_call.node = "YgData"
    /\ <<1, 0, 0, 1>> \in Range(atom_in.atomic_data.yg_data.index)
    /\ <<1, 0, 0, 1>> \notin Range(atom_call.approximate_yg_data.index)
    /\ <<2, 0, 0, 1>> \notin Range(atom_in.atomic_data.yg_data.index)
    /\ <<2, 0, 0, 1>> \in Range(atom_call.approximate_yg_data.index)
    /\ CellAt(atom_in.atomic_data.yg_data, <<2, 1, 0, 1>>, 1) = Fin(5)
    /\ CellAt(atom_in.atomic_data.yg_data, <<2, 1, 0, 1>>, 2) = NaN
    /\ CellAt(atom_call.approximate_yg_data, <<2, 1, 0, 1>>, 1) # Fin(5)
    /\ CellAt(atom_call.ret.yg_data, <<2, 1, 0, 1>>, 1) = Fin(5)
    /\ CellAt(atom_call.ret.yg_data, <<2, 1, 0, 1>>, 2)
           = CellAt(atom_call.approximate_yg_data, <<2, 1, 0, 1>>, 2)

(***************************************************************************)
(* C16: merging a table with itself yields that table, and merging the     *)
(* tabulated table with an empty van Regemorter table returns the          *)
(* tabulated table with the same rows, columns and values.                 *)
(***************************************************************************)
C16_MergeIdempotent ==
    /\ (atom_call.called /\ atom_call.node = "combine_first"
          /\ atom_call.this = atom_call.other)
           => atom_call.ret = atom_call.this
    /\ (atom_call.called /\ atom_call.node = "YgData"
          /\ IsEmpty(atom_call.approximate_yg_data))
           => atom_call.ret.yg_data = atom_in.atomic_data.yg_data

\* a table of two rows that are not in key order, with a value and a null,
\* merged with itself
C16_Witness ==
    /\ atom_call.called /\ atom_call.node = "combine_first"
    /\ Len(atom_call.this.index) = 2
    /\ KeyLess(atom_call.this.index[2], atom_call.this.index[1])
    /\ atom_call.this.values[1] = <<Fin(5), NaN>>
    /\ atom_call.ret = atom_call.this

(***************************************************************************)
(* C17: photo_ion_idx has exactly one row per level with photoionization   *)
(* data, in photo_ion_index order; source_level_idx of a row is the        *)
(* macro-atom reference index of its level and destination_level_idx is    *)
(* the macro-atom reference index of the ground level                      *)
(* (atomic_number, ion_number + 1, 0) of the next-higher ion, wherever     *)
(* the atomic data have that ground level.                                 *)
(***************************************************************************)
GroundLevelOf(k) == <<k[1], k[2] + 1, 0>>

C17_PhotoIonIdx ==
    PidOk =>
        LET idx == pid.ret.photo_ion_idx
            index == pid.ret.photo_ion_index
            refs == atomic_data.macro_atom_references
        IN /\ idx.index = index
           /\ Len(idx.source_level_idx) = Len(index)
           /\ Len(idx.destination_level_idx) = Len(index)
           /\ Range(index) = LevelsWithData
           /\ \A i, j \in 1..Len(index) : index[i] = index[j] => i = j
           /\ \A i \in 1..Len(index) :
                  /\ idx.source_level_idx[i] = refs[index[i]]
                  /\ GroundLevelOf(index[i]) \in DOMAIN refs =>
                         idx.destination_level_idx[i] = refs[GroundLevelOf(index[i])]

\* two levels of different ions, listed against the key order, each with its
\* own source and its own destination
C17_Witness ==
    /\ PidOk
    /\ Len(pid.ret.photo_ion_index) = 2
    /\ KeyLess(pid.ret.photo_ion_index[2], pid.ret.photo_ion_index[1])
    /\ \A i \in 1..2 :
           GroundLevelOf(pid.ret.photo_ion_index[i])
               \in DOMAIN atomic_data.macro_atom_references
    /\ pid.ret.photo_ion_idx.source_level_idx[1]
           # pid.ret.photo_ion_idx.source_level_idx[2]
    /\ pid.ret.photo_ion_idx.destination_level_idx[1]
           # pid.ret.photo_ion_idx.destination_level_idx[2]

(***************************************************************************)
(* SpecTransProbs: the assemblers of the transition probabilities, on the  *)
(* outputs of PhotoIonizationData (recombination, photoionization) or of   *)
(* YgData (collisions) and on rate coefficients indexed as those outputs   *)
(***************************************************************************)
RateCoeffVals == {1, 2}

\* the row of a rate coefficient whose first shell has the value v
RateRow(v) == [c \in 1..NoOfShells |-> v + c - 1]

InitRecombProbs ==
    /\ IdleAtom
    /\ \E rows \in SeqsUpTo(RawRows, MaxRateRows), missing_ions \in SUBSET OptionalIons :
          atomic_data = AtomicDataWith(rows, missing_ions)
    /\ continuum_interaction_species = {<<k[1], k[2]>> : k \in PhotoKeys}
    /\ \E alpha \in [PhotoKeys -> RateCoeffVals] :
          rate_in = [node |-> "Recomb",
                     alpha_sp |-> [k \in PhotoKeys |-> RateRow(alpha[k])],
                     gamma_corr |-> [k \in PhotoKeys |-> RateRow(alpha[k] + 1)]]

\* the collision transitions between the three lowest levels of H I
CollLevelKeys == {<<1, 0, 0>>, <<1, 0, 1>>, <<1, 0, 2>>, <<1, 1, 0>>}
CollLineKeys == {<<1, 0, 0, 1>>, <<1, 0, 0, 2>>, <<1, 0, 1, 2>>}

\* the atomic data of the collisions: levels and macro_atom_references as
\* in AtomicDataWith, every transition in lines, and the tabulated yg_data
CollAtomicData(yg_data) ==
    LET sorted == SortKeys(CollLevelKeys)
        lines == SortKeys(CollLineKeys)
    IN [photoionization_data |-> <<>>,
        levels |-> [k \in CollLevelKeys |-> EnergyOf(k)],
        macro_atom_references |->
            [k \in CollLevelKeys |->
                (CHOOSE i \in 1..Len(sorted) : sorted[i] = k) - 1],
        ionization_data |-> [zi \in {<<1, 1>>} |-> 2],
        lines |-> [i \in 1..Len(lines) |->
                      [key |-> lines[i], f_lu |-> lines[i][1],
                       nu |-> lines[i][2] + 1]],
        yg_data |-> yg_data]

\* tabulated tables of distinct transitions in any row order
CollTabulatedTables ==
    {Table(index, YgTemperatures,
           [i \in 1..Len(index) |-> [c \in 1..Len(YgTemperatures) |-> Fin(5)]]) :
        index \in {o \in SeqsUpTo(CollLineKeys, Cardinality(CollLineKeys)) :
                      \A i, j \in 1..Len(o) : i # j => o[i] # o[j]}}

InitCollisionProbs ==
    /\ \E yg_data \in CollTabulatedTables, species \in SUBSET {<<1, 0>>} :
          /\ atomic_data = CollAtomicData(yg_data)
          /\ atom_in = [node |-> "YgData",
                        atomic_data |-> CollAtomicData(yg_data),
                        continuum_interaction_species |-> species]
          /\ continuum_interaction_species = species
    /\ atom_call = None
    /\ \E exc \in [CollLineKeys -> RateCoeffVals],
          deexc \in [CollLineKeys -> RateCoeffVals] :
          rate_in = [node |-> "Collision",
                     coll_exc_coeff |-> [k \in CollLineKeys |-> RateRow(exc[k])],
                     coll_deexc_coeff |-> [k \in CollLineKeys |-> RateRow(deexc[k] + 2)],
                     electron_densities |-> [c \in 1..NoOfShells |-> c],
                     level_number_density |->
                         [k \in CollLevelKeys |->
                             [c \in 1..NoOfShells |-> k[3] + c]]]

InitTransProbs ==
    /\ IdleObj
    /\ IdleIndex
    /\ IdleInteg
    /\ pid = None
    /\ zero_integrated = None
    /\ rate_call = None
    /\ \/ InitRecombProbs
       \/ InitCollisionProbs

\* a rate coefficient of the plasma: a table indexed by `index`
RateCoeffTable(index, rows) ==
    DataFrame([i \in 1..Len(index) |-> rows[index[i]]], index)

CalculateRecombTransProbs ==
    /\ rate_in.node = "Recomb"
    /\ pid.called /\ pid.error = "None"
    /\ LET alpha_sp == RateCoeffTable(pid.ret.photo_ion_index, rate_in.alpha_sp)
       IN rate_call' =
              [called |-> TRUE, node |-> "BaseRecombTransProbs", error |-> "None",
               rate_coeff |-> alpha_sp, nu_i |-> pid.ret.nu_i,
               ret |-> BaseRecombTransProbs_calculate(
                           alpha_sp, pid.ret.nu_i, pid.ret.energy_i,
                           pid.ret.photo_ion_idx)]
    /\ UNCHANGED rate_in
    /\ UNCHANGED notRateVars

CalculatePhotoIonTransProbs ==
    /\ rate_in.node = "Recomb"
    /\ pid.called /\ pid.error = "None"
    /\ LET gamma_corr == RateCoeffTable(pid.ret.photo_ion_index, rate_in.gamma_corr)
       IN rate_call' =
              [called |-> TRUE, node |-> "BasePhotoIonTransProbs", error |-> "None",
               rate_coeff |-> gamma_corr, nu_i |-> pid.ret.nu_i,
               ret |-> BasePhotoIonTransProbs_calculate(
                           gamma_corr, pid.ret.nu_i, pid.ret.photo_ion_idx)]
    /\ UNCHANGED rate_in
    /\ UNCHANGED notRateVars

CalculateCollisionTransProbs ==
    /\ rate_in.node = "Collision"
    /\ atom_call.called /\ atom_call.node = "YgData"
    /\ \E columns_mode \in ColumnsModes :
          LET yg == atom_call.ret
              coll_exc_coeff == RateCoeffTable(yg.yg_index, rate_in.coll_exc_coeff)
              coll_deexc_coeff == RateCoeffTable(yg.yg_index, rate_in.coll_deexc_coeff)
              parts == BaseCollisionTransProbs_calculate(
                           coll_exc_coeff, coll_deexc_coeff, yg.yg_idx,
                           rate_in.electron_densities, yg.delta_E_yg,
                           atom_in.atomic_data, rate_in.level_number_density,
                           columns_mode)
          IN rate_call' =
                 [called |-> TRUE, node |-> "BaseCollisionTransProbs",
                  error |-> "None",
                  coll_exc_coeff |-> coll_exc_coeff,
                  coll_deexc_coeff |-> coll_deexc_coeff,
                  yg_idx |-> yg.yg_idx,
                  delta_E_yg |-> yg.delta_E_yg,
                  columns_mode |-> columns_mode,
                  parts |-> parts,
                  ret |-> parts.p_coll]
    /\ UNCHANGED rate_in
    /\ UNCHANGED notRateVars

NextTransProbs ==
    \/ CalculatePhotoIonizationData
    \/ CalculateYgData
    \/ CalculateRecombTransProbs
    \/ CalculatePhotoIonTransProbs
    \/ CalculateCollisionTransProbs

SpecTransProbs == InitTransProbs /\ [][NextTransProbs]_vars

(***************************************************************************)
(* C18: p_recomb has exactly two rows for every level of alpha_sp, the     *)
(* deactivation rows first and the internal rows after them, not summed:   *)
(* a row of transition_type -1 with the value alpha_sp * h * nu_i and a    *)
(* row of transition_type 0 with the value alpha_sp * energy_i.  Both      *)
(* have the recombined level as destination_level_idx and, wherever the    *)
(* atomic data have it, the ground level of the next-higher ion as         *)
(* source_level_idx.                                                       *)
(***************************************************************************)
RecombCalled == rate_call.called /\ rate_call.node = "BaseRecombTransProbs"

\* the threshold frequency nu_i of a level, as the assembler was given it
ThresholdNu(k) == rate_call.nu_i.values[RowOf(rate_call.nu_i, k)]

\* the rows of a transition-probability table with v at position `level`
\* of the index, and with transition type tt
RowsAt(p, level, v, tt) ==
    {i \in 1..Len(p.index) : p.index[i][level] = v /\ p.index[i][3] = tt}

C18_RecombRows ==
    RecombCalled =>
        LET p == rate_call.ret
            alpha_sp == rate_call.rate_coeff
            n == Len(alpha_sp.index)
            refs == atomic_data.macro_atom_references
        IN /\ Len(p.index) = 2 * n
           /\ Len(p.values) = 2 * n
           /\ p.names = IndexNames
           /\ \A i \in 1..(2 * n) : p.index[i][3] = (IF i <= n THEN -1 ELSE 0)
           /\ \A a \in 1..n :
                  LET k == alpha_sp.index[a]
                  IN /\ \E i \in 1..n :
                            /\ RowsAt(p, 2, refs[k], -1) = {i}
                            /\ \A c \in 1..NoOfShells :
                                   p.values[i][c] =
                                       alpha_sp.values[a][c] * PlanckConstant
                                           * ThresholdNu(k)
                     /\ \E i \in (n + 1)..(2 * n) :
                            /\ RowsAt(p, 2, refs[k], 0) = {i}
                            /\ \A c \in 1..NoOfShells :
                                   p.values[i][c] =
                                       alpha_sp.values[a][c] * atomic_data.levels[k]
                     /\ GroundLevelOf(k) \in DOMAIN refs =>
                            \A i \in RowsAt(p, 2, refs[k], -1) \cup RowsAt(p, 2, refs[k], 0) :
                                p.index[i][1] = refs[GroundLevelOf(k)]

\* two levels listed against the key order, with different rate
\* coefficients, thresholds and energies, both with a next-higher ion
C18_Witness ==
    /\ RecombCalled
    /\ Len(rate_call.rate_coeff.index) = 2
    /\ KeyLess(rate_call.rate_coeff.index[2], rate_call.rate_coeff.index[1])
    /\ rate_call.rate_coeff.values[1] # rate_call.rate_coeff.values[2]
    /\ ThresholdNu(rate_call.rate_coeff.index[1])
           # ThresholdNu(rate_call.rate_coeff.index[2])
    /\ \A a \in 1..2 :
           GroundLevelOf(rate_call.rate_coeff.index[a])
               \in DOMAIN atomic_data.macro_atom_references
    /\ rate_call.ret.values[1] # rate_call.ret.values[2]
    /\ rate_call.ret.values[3][1] > 0

(***************************************************************************)
(* C19: in p_coll the deexcitation-to-continuum rows and the excitation-   *)
(* cooling rows are each summed over the transitions that share the upper  *)
(* level (yg_idx.destination_level_idx: the destination of the excitation  *)
(* and the source of the deexcitation), one row per distinct upper level   *)
(* in ascending order, indexed (upper, "k", 0) and ("k", upper, 0); the    *)
(* internal deexcitation and excitation rows stay one row per transition;  *)
(* p_coll is the four groups one after the other, nothing merged.          *)
(***************************************************************************)
CollCalled == rate_call.called /\ rate_call.node = "BaseCollisionTransProbs"

\* the macro-atom reference indexes of the lower and of the upper level of
\* transition t of the call
LowerIdx(t) == rate_call.yg_idx.source_level_idx[t]
UpperIdx(t) == rate_call.yg_idx.destination_level_idx[t]

\* the per-transition terms of the two aggregated groups, before grouping
DeexcDeacTerm(t, c) ==
    rate_call.coll_deexc_coeff.values[t][c] * rate_in.electron_densities[c]
        * rate_call.delta_E_yg[t]

ExcCoolTerm(t, c) ==
    rate_call.coll_exc_coeff.values[t][c] * rate_in.electron_densities[c]
        * rate_call.delta_E_yg[t]
        * rate_in.level_number_density[
              DropLevelUpper(rate_call.yg_idx.index)[t]][c]

EnergyLower(t) ==
    atom_in.atomic_data.levels[DropLevelUpper(rate_call.yg_idx.index)[t]]

NoOfTransitions == Len(rate_call.yg_idx.index)

\* the sum of the deexcitation and of the excitation-cooling terms of the
\* transitions in T
SumDeexcDeac(T, c) ==
    SumSeq([t \in 1..NoOfTransitions |-> IF t \in T THEN DeexcDeacTerm(t, c) ELSE 0])

SumExcCool(T, c) ==
    SumSeq([t \in 1..NoOfTransitions |-> IF t \in T THEN ExcCoolTerm(t, c) ELSE 0])

UpperLevels == SortInts({UpperIdx(t) : t \in 1..NoOfTransitions})

C19_SummedByUpperLevel ==
    CollCalled =>
        LET parts == rate_call.parts
            n == NoOfTransitions
            SharingUpper(u) == {t \in 1..n : UpperIdx(t) = u}
        IN /\ parts.p_deexc_deac.index =
                  [g \in 1..Len(UpperLevels) |-> <<UpperLevels[g], "k", 0>>]
           /\ parts.p_deexc_deac.values =
                  [g \in 1..Len(UpperLevels) |->
                      [c \in 1..NoOfShells |->
                          SumDeexcDeac(SharingUpper(UpperLevels[g]), c)]]
           /\ parts.p_exc_cool.index =
                  [g \in 1..Len(UpperLevels) |-> <<"k", UpperLevels[g], 0>>]
           /\ parts.p_exc_cool.values =
                  [g \in 1..Len(UpperLevels) |->
                      [c \in 1..NoOfShells |->
                          SumExcCool(SharingUpper(UpperLevels[g]), c)]]
           /\ parts.p_deexc_internal.index =
                  [t \in 1..n |-> <<UpperIdx(t), LowerIdx(t), 0>>]
           /\ parts.p_deexc_internal.values =
                  [t \in 1..n |->
                      [c \in 1..NoOfShells |->
                          rate_call.coll_deexc_coeff.values[t][c]
                              * rate_in.electron_densities[c] * EnergyLower(t)]]
           /\ parts.p_exc_internal.index =
                  [t \in 1..n |-> <<LowerIdx(t), UpperIdx(t), 0>>]
           /\ parts.p_exc_internal.values =
                  [t \in 1..n |->
                      [c \in 1..NoOfShells |->
                          rate_call.coll_exc_coeff.values[t][c]
                              * rate_in.electron_densities[c] * EnergyLower(t)]]
           /\ rate_call.ret.index =
                  parts.p_deexc_deac.index \o parts.p_deexc_internal.index
                      \o parts.p_exc_internal.index \o parts.p_exc_cool.index
           /\ rate_call.ret.values =
                  parts.p_deexc_deac.values \o parts.p_deexc_internal.values
                      \o parts.p_exc_internal.values \o parts.p_exc_cool.values

\* three transitions, two of them to the same upper level and two of them
\* from the same lower level, listed against the key order
C19_Witness ==
    /\ CollCalled
    /\ NoOfTransitions = 3
    /\ Len(rate_call.parts.p_deexc_deac.index) = 2
    /\ Len(rate_call.ret.index) = 10
    /\ KeyLess(rate_call.yg_idx.index[2], rate_call.yg_idx.index[1])
    /\ \E t, u \in 1..3 : t # u /\ UpperIdx(t) = UpperIdx(u)
    /\ \E t, u \in 1..3 : t # u /\ LowerIdx(t) = LowerIdx(u)

\* C19 as stated: the deexcitation-to-continuum rows are summed over the
\* transitions that share a destination, one row per distinct destination
\* (the destination of a deexcitation is the lower level of the transition)
C19_Original_SummedByDestination ==
    CollCalled =>
        LET deac == rate_call.parts.p_deexc_deac
            destinations == SortInts({LowerIdx(t) : t \in 1..NoOfTransitions})
            SharingDestination(d) == {t \in 1..NoOfTransitions : LowerIdx(t) = d}
        IN /\ Len(deac.index) = Len(destinations)
           /\ \A g \in 1..Len(destinations), c \in 1..NoOfShells :
                  deac.values[g][c] =
                      SumDeexcDeac(SharingDestination(destinations[g]), c)

(***************************************************************************)
(* C20: the assemblers lose and invent no probability mass.  In every      *)
(* shell the rows of p_recomb of a level add up to                         *)
(* alpha_sp * (h * nu_i + energy_i), the rows of p_photo_ion of a level    *)
(* to gamma_corr * h * nu_i, and the column total of the "k" rows of       *)
(* p_coll of either kind is the column total of the per-transition terms   *)
(* they were grouped from.                                                 *)
(***************************************************************************)
PhotoIonCalled == rate_call.called /\ rate_call.node = "BasePhotoIonTransProbs"

\* the column total, in shell c, of the rows `rows` of the table p
ColumnTotal(p, rows, c) ==
    SumSeq([i \in 1..Len(p.index) |-> IF i \in rows THEN p.values[i][c] ELSE 0])

C20_NoMassLost ==
    /\ RecombCalled =>
           \A a \in 1..Len(rate_call.rate_coeff.index), c \in 1..NoOfShells :
               LET k == rate_call.rate_coeff.index[a]
                   p == rate_call.ret
                   ref == atomic_data.macro_atom_references[k]
               IN ColumnTotal(p, {i \in 1..Len(p.index) : p.index[i][2] = ref}, c)
                      = rate_call.rate_coeff.values[a][c]
                            * (PlanckConstant * ThresholdNu(k) + atomic_data.levels[k])
    /\ PhotoIonCalled =>
           \A a \in 1..Len(rate_call.rate_coeff.index), c \in 1..NoOfShells :
               LET k == rate_call.rate_coeff.index[a]
                   p == rate_call.ret
                   ref == atomic_data.macro_atom_references[k]
               IN ColumnTotal(p, {i \in 1..Len(p.index) : p.index[i][1] = ref}, c)
                      = rate_call.rate_coeff.values[a][c]
                            * PlanckConstant * ThresholdNu(k)
    /\ CollCalled =>
           LET p == rate_call.ret
               n == NoOfTransitions
               groups == Len(UpperLevels)
               deexc_rows == 1..groups
               cool_rows == (groups + 2 * n + 1)..(2 * groups + 2 * n)
           IN /\ Len(p.index) = 2 * groups + 2 * n
              /\ \A i \in deexc_rows : p.index[i][2] = "k"
              /\ \A i \in cool_rows : p.index[i][1] = "k"
              /\ \A c \in 1..NoOfShells :
                     /\ ColumnTotal(p, deexc_rows, c) = SumDeexcDeac(1..n, c)
                     /\ ColumnTotal(p, cool_rows, c) = SumExcCool(1..n, c)

\* three transitions grouped into two "k" rows of each kind, neither of
\* which carries the whole of the column total
C20_Witness ==
    /\ CollCalled
    /\ NoOfTransitions = 3
    /\ Len(UpperLevels) = 2
    /\ \A g \in 1..2 :
           /\ 0 < rate_call.ret.values[g][1]
           /\ rate_call.ret.values[g][1] < SumDeexcDeac(1..3, 1)
           /\ 0 < rate_call.ret.values[8 + g][1]
           /\ rate_call.ret.values[8 + g][1] < SumExcCool(1..3, 1)


(***************************************************************************)
(* SpecRegistry: a plasma is built from an assembled list of node classes  *)
(***************************************************************************)
\* continuum_interaction_properties of property_collections.py, as far as
\* NodeClasses has its members
continuum_interaction_properties ==
    <<"continuum.SpontRecombRateCoeff", "continuum.PhotoIonRateCoeff">>

InitRegistry ==
    /\ IdleIndex
    /\ IdleInteg
    /\ IdlePid
    /\ IdleRate
    /\ IdleAtom
    /\ cont = [constructed |-> FALSE]
    /\ leg = [loaded |-> FALSE]
    /\ \E first \in SeqsUpTo(NodeClasses, MaxModules),
          second \in {<<>>, continuum_interaction_properties} :
          /\ Len(first) + Len(second) <= MaxModules
          /\ plasma = [built |-> FALSE,
                       modules |-> AssembleCollections(first, second)]

BuildPlasma ==
    /\ ~plasma.built
    /\ plasma' = Registry(plasma.modules)
    /\ UNCHANGED <<cont, leg>>
    /\ UNCHANGED notObjVars

NextRegistry ==
    \/ BuildPlasma

SpecRegistry == InitRegistry /\ [][NextRegistry]_vars

(***************************************************************************)
(* C21: a plasma built from an assembled list in which an output name is   *)
(* declared by two nodes (two classes with the same output, or one class   *)
(* listed twice) is rejected, and in no registry has an output name two    *)
(* owners.                                                                 *)
(***************************************************************************)
DeclaredTwice(modules) ==
    \E i, j \in 1..Len(modules) :
        i # j /\ Outputs(modules[i]) \cap Outputs(modules[j]) # {}

AtomicDataSets ==
    {[atom_data |-> [z \in 1..2 |-> 10 * z + d],
      nlte_data |-> [is_none |-> FALSE, id |-> d]] : d \in {0, 1}}

Abundances == {<<1>>, <<1, 2>>}

Estimators ==
    {PyNone} \cup {[is_none |-> FALSE, values |-> <<[c \in 1..NoOfShells |-> v]>>] :
                      v \in EstimatorVals}

InputValues(input) ==
    CASE input = "abundance" -> Abundances
      [] input = "atomic_data" -> AtomicDataSets
      [] input = "photo_ion_estimator" -> Estimators

InitGraph ==
    /\ IdleIndex
    /\ IdleInteg
    /\ IdlePid
    /\ IdleRate
    /\ IdleAtom
    /\ cont = [constructed |-> FALSE]
    /\ leg = [loaded |-> FALSE]
    /\ \E abundance \in Abundances, ad \in AtomicDataSets, estimator \in Estimators :
          plasma = [built |-> TRUE,
                    inputs |-> [abundance |-> abundance, atomic_data |-> ad,
                                photo_ion_estimator |-> estimator],
                    values |-> [n \in ProcessingNodes |-> PyNone],
                    current |-> {},
                    calls |-> [n \in ProcessingNodes |-> 0],
                    invoked_stale |-> FALSE,
                    last |-> [requested |-> FALSE]]

WriteInput ==
    /\ \E input \in InputNames :
          \E v \in InputValues(input) : plasma' = Write(plasma, input, v)
    /\ UNCHANGED <<cont, leg>>
    /\ UNCHANGED notObjVars

RequestOutput ==
    /\ \E n \in ProcessingNodes :
          /\ \A m \in Needed(n) : plasma.calls[m] < MaxCalls
          /\ plasma' = Request(plasma, n)
    /\ UNCHANGED <<cont, leg>>
    /\ UNCHANGED notObjVars

NextGraph ==
    \/ WriteInput
    \/ RequestOutput

SpecGraph == InitGraph /\ [][NextGraph]_vars

(***************************************************************************)
(* C22 as stated: after a write to an Input node the next evaluation of    *)
(* any output that depends on it, directly or indirectly, is recomputed    *)
(* from the current input values and never returns the value computed      *)
(* from the old inputs: a requested output has the value its node          *)
(* computes from the inputs as they are.                                   *)
(***************************************************************************)
\* the value of a node's output computed from the inputs as they are
FreshValue(n) ==
    CASE n = "SelectedAtoms" -> plasma.inputs.abundance
      [] n = "AtomicMass" ->
             [is_none |-> FALSE, index |-> plasma.inputs.abundance,
              values |-> [i \in 1..Len(plasma.inputs.abundance) |->
                             plasma.inputs.atomic_data.atom_data[
                                 plasma.inputs.abundance[i]]]]
      [] n = "NLTEData" -> plasma.inputs.atomic_data.nlte_data
      [] n = "PhotoIonRateCoeff" ->
             continuum_PhotoIonRateCoeff_calculate(
                 plasma.inputs.photo_ion_estimator, GraphPhotoIonIndexSorted)

C22_Original_DependentsRecomputed ==
    plasma.last.requested => plasma.last.value = FreshValue(plasma.last.node)

(***************************************************************************)
(* C23: a request of an output whose node and whose node's inputs are      *)
(* current invokes no compute function (every call count stays as it       *)
(* was), and no compute function is ever invoked while one of its inputs   *)
(* is not current.                                                         *)
(***************************************************************************)
C23_CacheHit ==
    [][/\ ~plasma'.invoked_stale
       /\ (plasma'.last.requested /\ plasma'.last.hit) =>
              plasma'.calls = plasma'.last.calls_before]_vars

\* an output was requested twice without a write in between
C23_Witness ==
    /\ plasma.built
    /\ plasma.last.requested
    /\ plasma.last.hit
    /\ plasma.last.node = "AtomicMass"
    /\ plasma.calls["AtomicMass"] = 1
    /\ plasma.calls["SelectedAtoms"] = 1

(***************************************************************************)
(* C24 as stated: the raw atomic-data tables are read-only for every       *)
(* node: whatever node is evaluated, the tables of the atomic data (here   *)
(* zeta_data, ionization_data, yg_data, levels, lines) have the same       *)
(* columns, row keys and values afterwards.                                *)
(***************************************************************************)
C24_Original_RawTablesReadOnly == [][atom_in' = atom_in]_vars

(***************************************************************************)
(* C25 as stated: the output of an atomic property node contains only rows *)
(* of the selected species: every row of the levels output of Levels and   *)
(* of the lines output of Lines has an atomic number in selected_atoms.    *)
(***************************************************************************)
C25_Original_OnlySelectedRows ==
    /\ (atom_call.called /\ atom_call.node = "Levels") =>
           \A i \in 1..Len(atom_call.ret.levels) :
               atom_call.ret.levels[i][1] \in atom_in.selected_atoms
    /\ (atom_call.called /\ atom_call.node = "Lines") =>
           \A i \in 1..Len(atom_call.ret.lines) :
               atom_call.ret.lines[i].atomic_number \in atom_in.selected_atoms

(***************************************************************************)
(* base_continuum_data.py: the construction of BaseContinuumData           *)
(*                                                                         *)
(* A table is the sequence of its rows; positions count from 1, the        *)
(* values of continuum_edge_idx from 0 as in the code.  Frequencies are in *)
(* units in which the erg-to-Hz factor is 1.  The order of equal keys      *)
(* after argsort and after sort is not fixed by the code (quicksort), so   *)
(* each is any order that sorts.                                           *)
(***************************************************************************)
\* _prepare_levels: the levels of the selected species that are not of the
\* bare nucleus
BaseContinuumData_prepare_levels(levels, selected_continuum_species) ==
    LET Selected(r) == /\ r.key[1] \in selected_continuum_species
                       /\ r.key[1] # r.key[2]
    IN SelectSeq(levels, Selected)

\* nu.argsort(): the positions in an order of ascending nu
Argsorts(nu) ==
    {p \in [1..Len(nu) -> 1..Len(nu)] :
        /\ \A i, j \in 1..Len(nu) : i # j => p[i] # p[j]
        /\ \A i \in 1..(Len(nu) - 1) : nu[p[i]] <= nu[p[i + 1]]}

\* sort('nu', ascending=False): the positions in an order of descending nu
DescendingSorts(nu) ==
    {p \in [1..Len(nu) -> 1..Len(nu)] :
        /\ \A i, j \in 1..Len(nu) : i # j => p[i] # p[j]
        /\ \A i \in 1..(Len(nu) - 1) : nu[p[i]] >= nu[p[i + 1]]}

\* s[::-1]
Reversed(s) == [i \in 1..Len(s) |-> s[Len(s) + 1 - i]]

\* argsort of a permutation of positions: its inverse
ArgsortOfPermutation(p) == [l \in 1..Len(p) |-> CHOOSE k \in 1..Len(p) : p[k] = l]

\* np.arange(len(nu))[(nu.argsort()[::-1]).argsort().values]
ContinuumEdgeIdx(argsort) ==
    LET inverse == ArgsortOfPermutation(Reversed(argsort))
    IN [l \in 1..Len(argsort) |-> inverse[l] - 1]

\* _create_continuum_data_from_levels: the index, nu and continuum_edge_idx
BaseContinuumData_create_continuum_data_from_levels(levels, ionization_data, argsort) ==
    [index |-> [i \in 1..Len(levels) |-> levels[i].key],
     nu |-> [i \in 1..Len(levels) |->
                ionization_data[<<levels[i].key[1], levels[i].key[2] + 1>>]
                    - levels[i].energy],
     continuum_edge_idx |-> ContinuumEdgeIdx(argsort)]

\* the mutant: every continuum level is reported as lacking
PhotoionizationData_has_needed_photoionization_data_all_needed(continuum_index, photoionization_data_all) ==
    LET level_indices_all == SortKeys(Range(continuum_index))
        level_with_photdata_indices ==
            SortKeys({photoionization_data_all[i].key :
                         i \in 1..Len(photoionization_data_all)})
        InData(k) == k \in Range(level_with_photdata_indices)
    IN IF \A i \in 1..Len(level_indices_all) : InData(level_indices_all[i])
       THEN [error |-> "None", needed_data |-> <<>>, provided_data |-> <<>>]
       ELSE [error |-> "IncompletePhotoionizationDataError",
             needed_data |-> level_indices_all,
             provided_data |-> level_with_photdata_indices]

\* PhotoionizationData.has_needed_photoionization_data: np.unique of the
\* two indexes, np.in1d of the first in the second
PhotoionizationData_has_needed_photoionization_data(continuum_index, photoionization_data_all) ==
    LET level_indices_all == SortKeys(Range(continuum_index))
        level_with_photdata_indices ==
            SortKeys({photoionization_data_all[i].key :
                         i \in 1..Len(photoionization_data_all)})
        InData(k) == k \in Range(level_with_photdata_indices)
        NotInData(k) == ~InData(k)
    IN IF \A i \in 1..Len(level_indices_all) : InData(level_indices_all[i])
       THEN [error |-> "None", needed_data |-> <<>>, provided_data |-> <<>>]
       ELSE [error |-> "IncompletePhotoionizationDataError",
             needed_data |-> SelectSeq(level_indices_all, NotInData),
             provided_data |-> level_with_photdata_indices]

\* BaseContinuumData.__init__ followed by MCDataMixin._set_montecarlo_data;
\* c holds the arguments, argsort and sorted are the orders the two sorts
\* produce
BaseContinuumData_init(c, argsort, sorted) ==
    LET levels == BaseContinuumData_prepare_levels(
                      c.atom_data.levels, c.selected_continuum_species)
        continuum_data == BaseContinuumData_create_continuum_data_from_levels(
                              levels, c.atom_data.ionization_data, argsort)
        checked == PhotoionizationData_has_needed_photoionization_data(
                       continuum_data.index, c.photo_file)
    IN IF checked.error # "None"
       THEN [c EXCEPT !.started = TRUE, !.error = checked.error,
                      !.needed_data = checked.needed_data,
                      !.provided_data = checked.provided_data]
       ELSE [c EXCEPT !.started = TRUE, !.constructed = TRUE,
                      !.levels = levels,
                      !.continuum_data = continuum_data,
                      !.photoionization_data = c.photo_file,
                      !.multi_index_nu_sorted =
                          [k \in 1..Len(sorted) |-> continuum_data.index[sorted[k]]],
                      !.continuum_edges_list =
                          [k \in 1..Len(sorted) |-> continuum_data.nu[sorted[k]]]]

(***************************************************************************)
(* SpecContinuumData: a BaseContinuumData is constructed                   *)
(***************************************************************************)
ContinuumLevelsKeys == LevelsKeys \cup {<<1, 1, 0>>}

\* the ionization energies by (atomic_number, ion_number): H I and He I
\* have the same ground-level threshold
ContinuumIonizationData ==
    [zi \in {<<1, 1>>, <<2, 1>>, <<2, 2>>} |-> IF zi[2] = 2 THEN 7 ELSE 5]

\* the table of the cross-section file: two rows for each level in `keys`
PhotoFile(keys) ==
    LET sorted == SortKeys(keys)
    IN [i \in 1..(2 * Len(sorted)) |->
           [key |-> sorted[(i + 1) \div 2], nu |-> i, x_sect |-> 1]]

InitContinuumData ==
    /\ IdleIndex
    /\ IdleInteg
    /\ IdlePid
    /\ IdleRate
    /\ IdleAtom
    /\ plasma = [built |-> FALSE]
    /\ leg = [loaded |-> FALSE]
    /\ \E keys \in SUBSET ContinuumLevelsKeys, photo_keys \in SUBSET LevelsKeys,
          species \in SUBSET AtomicNumbers :
          cont = [constructed |-> FALSE, started |-> FALSE, error |-> "None",
                  atom_data |-> [levels |-> LevelsTable(keys),
                                 ionization_data |-> ContinuumIonizationData],
                  photo_file |-> PhotoFile(photo_keys),
                  selected_continuum_species |-> species,
                  needed_data |-> <<>>, provided_data |-> <<>>,
                  levels |-> <<>>, continuum_data |-> <<>>,
                  photoionization_data |-> <<>>,
                  multi_index_nu_sorted |-> <<>>,
                  continuum_edges_list |-> <<>>]

ConstructContinuumData ==
    /\ ~cont.started
    /\ LET levels == BaseContinuumData_prepare_levels(
                         cont.atom_data.levels, cont.selected_continuum_species)
           nu == BaseContinuumData_create_continuum_data_from_levels(
                     levels, cont.atom_data.ionization_data, <<>>).nu
       IN \E argsort \in Argsorts(nu), sorted \in DescendingSorts(nu) :
              cont' = BaseContinuumData_init(cont, argsort, sorted)
    /\ UNCHANGED <<plasma, leg>>
    /\ UNCHANGED notObjVars

NextContinuumData ==
    \/ ConstructContinuumData

SpecContinuumData == InitContinuumData /\ [][NextContinuumData]_vars

(***************************************************************************)
(* C26: the construction of BaseContinuumData completes only if every      *)
(* continuum-data level (every level of a selected species that is not of  *)
(* the bare nucleus) has a row in the cross-section table; otherwise       *)
(* from_hdf5 raises IncompletePhotoionizationDataError, needed_data is     *)
(* exactly the keys of the continuum levels without cross-section data,    *)
(* each once, and no attribute after photoionization_data is set.          *)
(***************************************************************************)
ContinuumLevelKeys ==
    {k \in {cont.atom_data.levels[i].key : i \in 1..Len(cont.atom_data.levels)} :
        k[1] \in cont.selected_continuum_species /\ k[1] # k[2]}

LevelsLackingData ==
    {k \in ContinuumLevelKeys :
        \A i \in 1..Len(cont.photo_file) : cont.photo_file[i].key # k}

C26_NeededPhotoionizationData ==
    cont.started =>
        /\ cont.constructed <=> LevelsLackingData = {}
        /\ ~cont.constructed =>
              /\ cont.error = "IncompletePhotoionizationDataError"
              /\ Range(cont.needed_data) = LevelsLackingData
              /\ Len(cont.needed_data) = Cardinality(LevelsLackingData)
              /\ cont.photoionization_data = <<>>
              /\ cont.multi_index_nu_sorted = <<>>

\* two continuum levels, one with cross sections and one without
C26_Witness ==
    /\ cont.started
    /\ ~cont.constructed
    /\ Len(cont.needed_data) = 1
    /\ Cardinality(ContinuumLevelKeys) = 2

(***************************************************************************)
(* C29 as stated: continuum_edge_idx is a permutation of 0..n-1 that is    *)
(* the inverse of the nu-descending ordering: for every continuum level l, *)
(* multi_index_nu_sorted[continuum_edge_idx[l]] is l and                   *)
(* continuum_edges_list[continuum_edge_idx[l]] is the nu of l, also when   *)
(* several levels have equal nu.                                           *)
(***************************************************************************)
C29_Original_EdgeIdxInverse ==
    cont.constructed =>
        LET n == Len(cont.continuum_data.index)
            edge_idx == cont.continuum_data.continuum_edge_idx
        IN /\ {edge_idx[l] : l \in 1..n} = 0..(n - 1)
           /\ \A l \in 1..n :
                 /\ cont.multi_index_nu_sorted[edge_idx[l] + 1]
                        = cont.continuum_data.index[l]
                 /\ cont.continuum_edges_list[edge_idx[l] + 1]
                        = cont.continuum_data.nu[l]

(***************************************************************************)
(* C27 as stated: p_photo_ion has one row per level of gamma_corr, keyed   *)
(* (source = the reference of the ionizing level, destination = the        *)
(* reference of the ground level of the next ion, transition_type = 1),    *)
(* holding gamma_corr * h * nu_i of that level.                            *)
(***************************************************************************)
C27_Original_PhotoIonRows ==
    PhotoIonCalled =>
        LET p == rate_call.ret
            gamma_corr == rate_call.rate_coeff
            n == Len(gamma_corr.index)
            refs == atomic_data.macro_atom_references
        IN /\ Len(p.index) = n
           /\ p.names = IndexNames
           /\ \A a \in 1..n :
                  LET k == gamma_corr.index[a]
                  IN \E i \in 1..n :
                         /\ RowsAt(p, 1, refs[k], 1) = {i}
                         /\ GroundLevelOf(k) \in DOMAIN refs =>
                                p.index[i][2] = refs[GroundLevelOf(k)]
                         /\ \A c \in 1..NoOfShells :
                                p.values[i][c] =
                                    gamma_corr.values[a][c] * PlanckConstant
                                        * ThresholdNu(k)

(***************************************************************************)
(* C28 as stated: the outputs of PhotoIonizationData are mutually aligned  *)
(* for any row order of the raw table: the rows of block i of              *)
(* photo_ion_cross_sections, from photo_ion_block_references[i] up to      *)
(* photo_ion_block_references[i + 1], all carry the key                    *)
(* photo_ion_index[i], and nu_i, energy_i and photo_ion_idx at position i  *)
(* are those of the level photo_ion_index[i].                              *)
(***************************************************************************)
C28_Original_OutputsAligned ==
    PidOk =>
        LET refs == pid.ret.photo_ion_block_references
            photo_ion_index == pid.ret.photo_ion_index
            x_sect == pid.ret.photo_ion_cross_sections
        IN /\ Len(refs) = Len(photo_ion_index) + 1
           /\ \A i \in 1..Len(photo_ion_index) :
                  /\ \A r \in (refs[i] + 1)..refs[i + 1] :
                         x_sect[r].key = photo_ion_index[i]
                  /\ pid.ret.nu_i.index[i] = photo_ion_index[i]
                  /\ pid.ret.energy_i.index[i] = photo_ion_index[i]
                  /\ pid.ret.photo_ion_idx.index[i] = photo_ion_index[i]

(***************************************************************************)
(* atomic/base.py: the cached properties of AtomicDataLeg                  *)
(*                                                                         *)
(* A loaded table is its column labels, its index and one record per row.  *)
(* Energies are integers; the eV-to-erg factor is EvToErg.  A property     *)
(* takes the object and gives the object after the read, with the value    *)
(* returned in `last`.                                                     *)
(***************************************************************************)
EvToErg == 2

\* table[cols]: the columns `cols` in that order
SelectColumns(table, cols) ==
    [table EXCEPT !.columns = cols,
                  !.rows = [i \in 1..Len(table.rows) |->
                               [c \in Range(cols) |-> table.rows[i][c]]]]

\* the mutant: the loaded table itself is shifted and converted
AtomicDataLeg_ionization_data_no_copy(l) ==
    LET shifted ==
            [is_none |-> FALSE,
             index |-> [i \in 1..Len(l.ions) |->
                           <<l.ions[i].atomic_number, l.ions[i].ion_number + 1>>],
             ionization_energy |->
                 [i \in 1..Len(l.ions) |-> l.ions[i].ionization_energy * EvToErg]]
        cached == IF l.cached_ionization_data.is_none
                  THEN shifted ELSE l.cached_ionization_data
    IN [l EXCEPT !.cached_ionization_data = cached,
                 !.ions = IF l.cached_ionization_data.is_none
                          THEN [i \in 1..Len(l.ions) |->
                                   [l.ions[i] EXCEPT
                                       !.ion_number = @ + 1,
                                       !.ionization_energy = @ * EvToErg]]
                          ELSE l.ions,
                 !.reads = @ + 1,
                 !.last = [attr |-> "ionization_data", ret |-> cached]]

\* AtomicDataLeg.ionization_data
AtomicDataLeg_ionization_data(l) ==
    LET shifted ==
            [is_none |-> FALSE,
             index |-> [i \in 1..Len(l.ions) |->
                           <<l.ions[i].atomic_number, l.ions[i].ion_number + 1>>],
             ionization_energy |->
                 [i \in 1..Len(l.ions) |-> l.ions[i].ionization_energy * EvToErg]]
        cached == IF l.cached_ionization_data.is_none
                  THEN shifted ELSE l.cached_ionization_data
    IN [l EXCEPT !.cached_ionization_data = cached,
                 !.reads = @ + 1,
                 !.last = [attr |-> "ionization_data", ret |-> cached]]

\* AtomicDataLeg._levels
AtomicDataLeg_levels(l) ==
    LET cols == l.levels.columns
        reordered == SelectColumns(l.levels,
                         [i \in 1..5 |-> cols[<<1, 4, 5, 2, 3>>[i]]])
        converted ==
            [is_none |-> FALSE, columns |-> reordered.columns,
             index |-> reordered.index,
             rows |-> [i \in 1..Len(reordered.rows) |->
                          [reordered.rows[i] EXCEPT !.energy = @ * EvToErg]]]
        cached == IF l.cached_levels.is_none THEN converted ELSE l.cached_levels
    IN [l EXCEPT !.cached_levels = cached,
                 !.reads = @ + 1,
                 !.last = [attr |-> "_levels", ret |-> cached]]

\* AtomicDataLeg.atom_data
AtomicDataLeg_atom_data(l) ==
    LET Kept(c) == c \notin {"group", "id", "period", "atomic_number"}
        cols == SelectSeq(l.atoms.columns, Kept)
        reordered == SelectColumns(l.atoms, <<cols[2], cols[1]>>)
        prepared ==
            [is_none |-> FALSE, columns |-> reordered.columns,
             index |-> [i \in 1..Len(reordered.index) |-> reordered.index[i] + 1],
             index_name |-> "atomic_number",
             rows |-> reordered.rows]
        cached == IF l.cached_atom_data.is_none THEN prepared ELSE l.cached_atom_data
    IN [l EXCEPT !.cached_atom_data = cached,
                 !.reads = @ + 1,
                 !.last = [attr |-> "atom_data", ret |-> cached]]

(***************************************************************************)
(* SpecLeg: the properties of a loaded AtomicDataLeg are read              *)
(***************************************************************************)
\* the loaded ions table: rows (atomic_number, ion_number, energy in eV)
IonsTables ==
    {[i \in 1..n |-> [atomic_number |-> (i + 1) \div 2, ion_number |-> i \div 3,
                      ionization_energy |-> e + i]] :
        n \in 1..3, e \in {0, 5}}

\* the loaded levels table, with its five columns as stored
LevelsTables ==
    {[columns |-> <<"atomic_number", "energy", "g", "ion_number", "level_number">>,
      index |-> [i \in 1..n |-> i - 1],
      rows |-> [i \in 1..n |->
                   [atomic_number |-> 1, ion_number |-> 0, level_number |-> i - 1,
                    energy |-> 3 * (i - 1), g |-> 2 * i]]] : n \in 1..2}

\* the loaded atoms table, indexed from 0
AtomsTables ==
    {[columns |-> <<"atomic_number", "symbol", "mass", "group", "period", "id">>,
      index |-> [i \in 1..n |-> i - 1],
      rows |-> [i \in 1..n |->
                   [atomic_number |-> i, symbol |-> 100 + i, mass |-> 4 * i - 3,
                    group |-> 17 * i - 16, period |-> 1, id |-> i]]] : n \in 1..2}

InitLeg ==
    /\ IdleIndex
    /\ IdleInteg
    /\ IdlePid
    /\ IdleRate
    /\ IdleAtom
    /\ plasma = [built |-> FALSE]
    /\ cont = [constructed |-> FALSE]
    /\ \E ions \in IonsTables, levels \in LevelsTables, atoms \in AtomsTables :
          leg = [loaded |-> TRUE, ions |-> ions, levels |-> levels, atoms |-> atoms,
                 cached_ionization_data |-> PyNone, cached_levels |-> PyNone,
                 cached_atom_data |-> PyNone,
                 reads |-> 0, last |-> [attr |-> "None"]]

ReadIonizationData ==
    /\ leg.reads < MaxReads
    /\ leg' = AtomicDataLeg_ionization_data(leg)
    /\ UNCHANGED <<plasma, cont>>
    /\ UNCHANGED notObjVars

ReadLevels ==
    /\ leg.reads < MaxReads
    /\ leg' = AtomicDataLeg_levels(leg)
    /\ UNCHANGED <<plasma, cont>>
    /\ UNCHANGED notObjVars

ReadAtomData ==
    /\ leg.reads < MaxReads
    /\ leg' = AtomicDataLeg_atom_data(leg)
    /\ UNCHANGED <<plasma, cont>>
    /\ UNCHANGED notObjVars

NextLeg ==
    \/ ReadIonizationData
    \/ ReadLevels
    \/ ReadAtomData

SpecLeg == InitLeg /\ [][NextLeg]_vars

(***************************************************************************)
(* C30: reading a cached property of AtomicDataLeg is idempotent: every    *)
(* read of ionization_data, _levels and atom_data returns the table the    *)
(* first read produced, in which the ion-number shift by 1 and the         *)
(* eV-to-erg conversion are applied exactly once to the loaded values, and *)
(* the loaded tables ions, levels and atoms are never modified.            *)
(***************************************************************************)
\* the value of the stored property named attr in the object l
CachedOf(l, attr) ==
    CASE attr = "ionization_data" -> l.cached_ionization_data
      [] attr = "_levels" -> l.cached_levels
      [] attr = "atom_data" -> l.cached_atom_data

C30_ReadsIdempotent ==
    [][/\ leg'.ions = leg.ions
       /\ leg'.levels = leg.levels
       /\ leg'.atoms = leg.atoms
       /\ ~CachedOf(leg, leg'.last.attr).is_none =>
              leg'.last.ret = CachedOf(leg, leg'.last.attr)
       /\ leg'.last.attr = "ionization_data" =>
              /\ Len(leg'.last.ret.index) = Len(leg.ions)
              /\ \A i \in 1..Len(leg.ions) :
                     /\ leg'.last.ret.index[i] =
                            <<leg.ions[i].atomic_number, leg.ions[i].ion_number + 1>>
                     /\ leg'.last.ret.ionization_energy[i] =
                            leg.ions[i].ionization_energy * EvToErg
       /\ leg'.last.attr = "_levels" =>
              /\ Len(leg'.last.ret.rows) = Len(leg.levels.rows)
              /\ \A i \in 1..Len(leg.levels.rows) :
                     /\ leg'.last.ret.rows[i].energy =
                            leg.levels.rows[i].energy * EvToErg
                     /\ leg'.last.ret.rows[i].g = leg.levels.rows[i].g
       /\ leg'.last.attr = "atom_data" =>
              \A i \in 1..Len(leg.atoms.rows) :
                  /\ leg'.last.ret.index[i] = leg.atoms.index[i] + 1
                  /\ leg'.last.ret.rows[i].mass = leg.atoms.rows[i].mass]_vars

\* ionization_data was read, then another property, then ionization_data
\* again
C30_Witness ==
    /\ leg.loaded
    /\ leg.reads = 3
    /\ leg.last.attr = "ionization_data"
    /\ ~leg.cached_levels.is_none
    /\ leg.cached_atom_data.is_none

=============================================================================
